---------------------------- MODULE Spec2Model ----------------------------
(***************************************************************************)
(* A model of scopuscite: the cached, chunked fetch operations of the      *)
(* class Scopus (src/scopuscite/scopus.py), the h-index of                 *)
(* src/scopuscite/utils.py and the aggregation of publications by author   *)
(* of src/scopuscite/aggregate.py.                                         *)
(*                                                                         *)
(* Strings are sequences of symbols: an identifier with the number n is    *)
(* the one-symbol string <<n>>, and the prefixed forms the remote uses     *)
(* ('2-s2.0-...', 'SCOPUS_ID:...', 'AUTHOR_ID:...') are a prefix string    *)
(* followed by it, so that the slicing the code does is modelled as        *)
(* slicing.                                                                *)
(***************************************************************************)
EXTENDS Integers, Sequences, FiniteSets, TLC

VARIABLES
    disk,       \* the cache files, one per category: [exists, data]
    mem,        \* the attributes self.cache_*: [set, data]
    pc,         \* the place where the running operation waits for the remote
    inv,        \* the arguments of the running (or last) invocation
    loc,        \* the local variables of the running invocation
    ret,        \* what the last invocation returned (or raised)
    hist,       \* observations of the run: queries sent, cache at the start, ...
    last,       \* the last exchange with the remote and how it was handled
    budget,     \* what the bounds of the model still allow
    citations,  \* the argument of utils.hindex
    hres,       \* [done, h]: the value utils.hindex returned
    pubtable,   \* the DataFrame pubs of aggregate.py, a sequence of rows
    yrange,     \* the year_range last passed in aggregate.py: <<start, stop>>
    agg,        \* what the functions of aggregate.py have computed
    info,       \* the call of aggregate_author_info: its locals and outcome
    dec         \* the call of decode_cite_info: its arguments and outcome

vars == <<disk, mem, pc, inv, loc, ret, hist, last, budget, citations, hres,
          pubtable, yrange, agg, info, dec>>

aggVars == <<pubtable, yrange, agg, info>>

fetchVars == <<disk, mem, pc, inv, loc, ret, hist, last, budget>>

---------------------------------------------------------------------------
(* Bounds of the model.                                                    *)

\* the longest citation list handed to hindex
MaxPubs == 5
\* the largest citation count in such a list
MaxCite == 6
\* the invocations in a behaviour that repeats an invocation
MaxInvocations == 2
\* the entries the remote serves to search requests in one behaviour, a
\* page without an entry counting as one
MaxEntries == 2
\* the same for the requests of get_single_author_publications
MaxSingle == 1
\* the largest total the remote declares for a search
MaxTotal == 2
\* the longest of the short request lists
MaxShort == 2
\* by how many ids the long request list exceeds one chunk
MaxExtra == 1
\* the rows of the publication DataFrame
MaxRows == 2
\* the years of the longest year range
MaxYears == 2

---------------------------------------------------------------------------
(* Constants of the program.                                               *)

RETRY_LIMIT == 10           \* call_api: for _ in range(10)
CHUNK_AUTHOR_PUB == 10      \* get_author_publications: chunk_size
CHUNK_PUB_INFO == 25        \* get_publication_info: chunk_size
CHUNK_AUTHOR_INFO == 25     \* get_author_info: chunk_size
SAVE_EVERY_PUB == 200       \* get_publication_info: (idx+1) % 200
SAVE_EVERY_AUTHOR == 20     \* get_author_info: (idx+1) % 20
EID_PREFIX_LEN == 7         \* eid_to_scopus_id: eid[7:]
IDENT_PREFIX_LEN == 10      \* entry['dc:identifier'][10:]

STATUS_OK == 200
TransientStatus == {503, 504}
\* the other statuses the remote answers with in the model
OtherStatus == {404, 500}

---------------------------------------------------------------------------
(* Strings, identifiers and the helpers of utils/scopus.py.                *)

Id(n) == <<n>>
EidPrefix == <<"2", "-", "s", "2", ".", "0", "-">>
ScopusIdPrefix == <<"S", "C", "O", "P", "U", "S", "_", "I", "D", ":">>
AuthorIdPrefix == <<"A", "U", "T", "H", "O", "R", "_", "I", "D", ":">>

scopus_id_to_eid(scopus_id) == EidPrefix \o scopus_id
eid_to_scopus_id(eid) == SubSeq(eid, EID_PREFIX_LEN + 1, Len(eid))
\* s[10:]
StripIdentifier(s) == SubSeq(s, IDENT_PREFIX_LEN + 1, Len(s))

Min(a, b) == IF a < b THEN a ELSE b
Range(s) == {s[i] : i \in 1..Len(s)}
Iota(n) == [i \in 1..n |-> Id(i)]

\* chunks whose successive slices overlap by one element
chunksOverlap(l, n) ==
    [k \in 1..((Len(l) + n - 1) \div n) |->
        SubSeq(l, (k - 1) * n + 1, Min(Len(l), k * n + 1))]

\* chunks that leave out a last slice shorter than n
chunksWhole(l, n) ==
    [k \in 1..(Len(l) \div n) |-> SubSeq(l, (k - 1) * n + 1, k * n)]

\* chunks(l, n): the slices l[i:i+n] for i in range(0, len(l), n), in order
chunks(l, n) ==
    [k \in 1..((Len(l) + n - 1) \div n) |->
        SubSeq(l, (k - 1) * n + 1, Min(Len(l), k * n))]

---------------------------------------------------------------------------
(* The cache store: a mapping is a function on its set of keys.            *)

Categories == {"search_query", "author_pub", "pub_info", "author_info"}

EmptyMap == [k \in {} |-> {}]
\* d[k] = v
Put(d, k, v) == [x \in DOMAIN d \cup {k} |-> IF x = k THEN v ELSE d[x]]
\* an update that keeps nothing of d
UpdateForgetful(d, e) == e

\* d.update(e)
Update(d, e) ==
    [x \in DOMAIN d \cup DOMAIN e |-> IF x \in DOMAIN e THEN e[x] ELSE d[x]]

\* a save that writes the attribute of every category to its file
SaveEvery(d, m, cat) ==
    [c \in Categories |-> [exists |-> TRUE, data |-> m[c].data]]

\* a load that keeps the attribute an earlier invocation has set
LoadOnce(d, m, cat) ==
    IF m[cat].set THEN m
    ELSE [m EXCEPT ![cat] = [set |-> TRUE,
                             data |-> IF d[cat].exists THEN d[cat].data
                                      ELSE EmptyMap]]

\* load_*_cache: the file's mapping, or {} when there is no file
Load(d, m, cat) ==
    [m EXCEPT ![cat] = [set |-> TRUE,
                        data |-> IF d[cat].exists THEN d[cat].data ELSE EmptyMap]]
\* save_*_cache: the whole file is overwritten with the attribute
Save(d, m, cat) == [d EXCEPT ![cat] = [exists |-> TRUE, data |-> m[cat].data]]

---------------------------------------------------------------------------
(* utils.hindex                                                            *)

\* the bucket a citation count x falls into, of n+1 buckets (lines 99-103)
hindexBucket(x, n) == IF x >= n THEN n ELSE x

\* count[i] after the first loop (lines 97-103)
hindexCount(cits, i) ==
    Cardinality({k \in 1..Len(cits) : hindexBucket(cits[k], Len(cits)) = i})

\* a scan that returns at the first bucket i with h > i instead of h >= i
RECURSIVE hindexScanStrict(_, _, _)
hindexScanStrict(cits, i, h) ==
    IF i < 0 THEN h
    ELSE LET h2 == h + hindexCount(cits, i)
         IN IF h2 > i THEN i ELSE hindexScanStrict(cits, i - 1, h2)

\* the second loop (lines 105-111): i runs from n down to 0, h accumulates
\* count[i], and the first i with h >= i is returned; h after the loop
RECURSIVE hindexScan(_, _, _)
hindexScan(cits, i, h) ==
    IF i < 0 THEN h
    ELSE LET h2 == h + hindexCount(cits, i)
         IN IF h2 >= i THEN i ELSE hindexScan(cits, i - 1, h2)

hindex(cits) == hindexScan(cits, Len(cits), 0)

---------------------------------------------------------------------------
(* The state after construction (Scopus.__init__): no cache file is        *)
(* assumed, no cache attribute is set, and no operation runs.              *)

NoLocals ==
    [ids_new |-> <<>>, idx |-> 0, attempt |-> 0, first |-> FALSE,
     start |-> 0, retrieved |-> 0, num_results |-> 0,
     scopus_ids |-> {}, author_pub |-> EmptyMap, exists_long |-> FALSE,
     authors_bound |-> FALSE, authors |-> {},
     fb |-> 0, s_ids |-> {}, s_start |-> 0, s_retrieved |-> 0, s_num |-> 0,
     records |-> <<>>, res_not_found |-> 0, found |-> {}]

NoInvocation ==
    [op |-> "none", ids |-> <<>>, force |-> FALSE,
     year_range |-> <<0, 0>>, cite_type |-> "all", query |-> ""]

NoReturn == [kind |-> "none", val |-> {}]

NoExchange ==
    [op |-> "none", at |-> "none", answer |-> "none", payload |-> "none",
     outcome |-> "none"]

NoHistory ==
    [cache0 |-> EmptyMap, queries |-> <<>>, hits |-> {}, fetched |-> {},
     not_found |-> {}, omitted |-> {}, prev_inv |-> NoInvocation,
     prev_ret |-> NoReturn, prev_omitted |-> {}, prev_disk |-> EmptyMap,
     received |-> 0, s_received |-> 0, failed |-> {},
     counting |-> FALSE, calls |-> 0, requests |-> 0, transients |-> 0,
     nones |-> 0]

\* no cache file yet
NoFiles == [c \in Categories |-> [exists |-> FALSE, data |-> EmptyMap]]

FetchInit(files, invocations, long, single) ==
    /\ disk = files
    /\ mem = [c \in Categories |-> [set |-> FALSE, data |-> EmptyMap]]
    /\ pc = "idle"
    /\ inv = NoInvocation
    /\ loc = NoLocals
    /\ ret = NoReturn
    /\ hist = NoHistory
    /\ last = NoExchange
    /\ budget = [invocations |-> invocations, entries |-> MaxEntries,
                 s_entries |-> single,
                 long |-> long]

---------------------------------------------------------------------------
(* The remote's answers to search requests.                                *)

\* An entry of a page of search results: 'eid' and 'author' may be missing,
\* and 'message' may say that the author list was truncated.
SearchEntry(has_eid, n, has_author, authors, truncated) ==
    [has_eid |-> has_eid, eid |-> scopus_id_to_eid(Id(n)),
     has_author |-> has_author, author |-> authors, truncated |-> truncated]

\* an author id that is in no request list
Outsider == Id(0)

SearchEntries ==
    { SearchEntry(TRUE, 1, TRUE, {Id(1)}, FALSE),
      SearchEntry(TRUE, 2, TRUE, {Id(2), Id(CHUNK_AUTHOR_PUB + 1)}, FALSE),
      SearchEntry(TRUE, 2, TRUE, {Outsider}, FALSE),
      SearchEntry(TRUE, 1, FALSE, {}, FALSE),
      SearchEntry(TRUE, 2, FALSE, {}, TRUE),
      SearchEntry(FALSE, 1, TRUE, {Id(1)}, FALSE) }

RECURSIVE SeqsUpTo(_, _)
SeqsUpTo(S, n) ==
    IF n = 0 THEN {<<>>}
    ELSE LET shorter == SeqsUpTo(S, n - 1)
         IN shorter \cup {Append(s, x) : s \in shorter, x \in S}

\* the pages the remote can still serve when the bound allows `entries`
\* more entries
SearchPages(entries) ==
    IF entries > 0 THEN SeqsUpTo(SearchEntries, entries) ELSE {}

\* The parsed body of a 200 answer to a search request. The code reads the
\* declared total from the first answer of a query only, and reads the
\* entries only when it pages: what it does not read is left out.
SearchAnswers(first, entries) ==
    IF first
    THEN {[total |-> 0, entry |-> <<>>]}
         \cup {[total |-> t, entry |-> p] :
                t \in 1..MaxTotal, p \in SearchPages(entries)}
    ELSE {[total |-> 0, entry |-> p] : p \in SearchPages(entries)}

\* The entries of an answer to get_single_author_publications, which reads
\* of an entry only its eid (lines 305-309).
SingleEntries ==
    { SearchEntry(TRUE, 1, FALSE, {}, FALSE),
      SearchEntry(TRUE, 2, FALSE, {}, FALSE),
      SearchEntry(FALSE, 1, FALSE, {}, FALSE) }

\* the authors for whom a search for the author alone finds publications
Prolific == {Id(1)}

\* the parsed body of a 200 answer to a request for the publications of
\* author
SingleAnswers(author, first, entries) ==
    LET pages == IF entries > 0 /\ author \in Prolific
                 THEN SeqsUpTo(SingleEntries, entries) ELSE {}
    IN IF first
       THEN {[total |-> 0, entry |-> <<>>]}
            \cup {[total |-> t, entry |-> p] : t \in 1..MaxTotal, p \in pages}
       ELSE {[total |-> 0, entry |-> p] : p \in pages}

\* whether the code reads the entries of the answer js
IsPage(first, js) == ~first \/ js.total > 0

\* the entries received so far for the query that is paging, counted as the
\* remote sent them: s_received for get_single_author_publications, received
\* for the other loops
Received(s, js) ==
    LET n == IF IsPage(s.loc.first, js) THEN Len(js.entry) ELSE 0
        before(k) == IF s.loc.first THEN 0 ELSE k
    IN IF s.pc = "gap_single"
       THEN [s EXCEPT !.hist.s_received = before(@) + n]
       ELSE [s EXCEPT !.hist.received = before(@) + n]

\* what is left of the bounds after the answer js
Served(b, first, js) ==
    IF ~IsPage(first, js) THEN b
    ELSE IF js.entry = <<>> THEN [b EXCEPT !.entries = @ - 1]
    ELSE [b EXCEPT !.entries = @ - Len(js.entry)]

\* the same for an answer to a query of get_single_author_publications,
\* whose pages have a bound of their own
ServedSingle(b, first, js) ==
    [b EXCEPT !.s_entries = Served([entries |-> @], first, js).entries]

---------------------------------------------------------------------------
(* The steps of the operations are functions from the state to the next   *)
(* state: s has the fields disk, mem, pc, loc, ret and hist.               *)

Cur == [disk |-> disk, mem |-> mem, pc |-> pc, loc |-> loc, ret |-> ret,
        hist |-> hist]

Becomes(s) ==
    /\ disk' = s.disk
    /\ mem' = s.mem
    /\ pc' = s.pc
    /\ loc' = s.loc
    /\ ret' = s.ret
    /\ hist' = s.hist

\* the operation returns val ("result"), returns None ("abort") or lets an
\* exception escape ("raise")
Return(s, kind, val) ==
    [s EXCEPT !.pc = "idle", !.ret = [kind |-> kind, val |-> val]]

\* the request lists of the model for an operation with chunk size n: short
\* lists and, where the behaviour has long ones, a list longer than a chunk
\* and one that repeats its first id after a whole chunk
RequestLists(n) ==
    {Iota(k) : k \in 0..MaxShort}
        \cup (IF budget.long THEN {Iota(n + MaxExtra), Append(Iota(n), Id(1))}
              ELSE {})

\* what an invocation records when it starts: the cache as loaded, the ids
\* served from it, and the invocation before it; failed are the authors
\* whose query of the fallback returned None while the chunk's dict held
\* publications for them; where the requests are counted, calls are the
\* invocations of call_api, requests the requests they made, transients the
\* 503 and 504 answers of the last invocation of call_api, and nones the
\* invocations that returned None
Started(h, cache, hits, before_inv, before_ret, before_disk) ==
    [cache0 |-> cache, queries |-> <<>>, hits |-> hits, fetched |-> {},
     not_found |-> {}, omitted |-> {}, prev_inv |-> before_inv,
     prev_ret |-> before_ret, prev_omitted |-> h.omitted,
     prev_disk |-> before_disk, received |-> 0, s_received |-> 0,
     failed |-> {},
     counting |-> h.counting, calls |-> 0, requests |-> 0, transients |-> 0,
     nones |-> 0]

---------------------------------------------------------------------------
(* get_author_publications and get_single_author_publications              *)

GapChunkOf(l) == chunks(l.ids_new, CHUNK_AUTHOR_PUB)[l.idx]

\* lines 442-454: the cache is saved once more and scopus_ids is returned
GapFinish(s) ==
    Return([s EXCEPT !.disk = Save(s.disk, s.mem, "author_pub")],
           "result", s.loc.scopus_ids)

\* lines 369-380: the next chunk's query is built and its first request
\* sent, or the loop over the chunks ends
GapChunk(s) ==
    IF s.loc.idx > Len(chunks(s.loc.ids_new, CHUNK_AUTHOR_PUB))
    THEN GapFinish(s)
    ELSE [s EXCEPT !.pc = "gap_chunk",
                   !.loc.start = 0, !.loc.attempt = 0, !.loc.first = TRUE,
                   !.hist.queries =
                        Append(@, [kind |-> "chunk", ids |-> GapChunkOf(s.loc)])]

\* a commit that leaves out the authors no result entry named
GapCommitNamed(s) ==
    LET named == {a \in DOMAIN s.loc.author_pub : s.loc.author_pub[a] # {}}
        m == [s.mem EXCEPT !["author_pub"].data =
                Update(@, [a \in named |-> s.loc.author_pub[a]])]
    IN GapChunk([s EXCEPT !.mem = m,
                          !.disk = Save(s.disk, m, "author_pub"),
                          !.loc.idx = @ + 1])

\* lines 438-440: the chunk's dict is merged into the cache and the cache
\* saved; then the next chunk
GapCommit(s) ==
    LET m == [s.mem EXCEPT !["author_pub"].data = Update(@, s.loc.author_pub)]
    IN GapChunk([s EXCEPT !.mem = m,
                          !.disk = Save(s.disk, m, "author_pub"),
                          !.loc.idx = @ + 1])

\* lines 433-434: the query of the next author of the chunk is built and its
\* first request sent (get_single_author_publications, lines 282-291), or
\* the loop over the chunk ends
GapSingle(s) ==
    IF s.loc.fb > Len(GapChunkOf(s.loc))
    THEN GapCommit(s)
    ELSE [s EXCEPT !.pc = "gap_single",
                   !.loc.s_ids = {}, !.loc.s_start = 0,
                   !.loc.attempt = 0, !.loc.first = TRUE,
                   !.hist.queries =
                        Append(@, [kind |-> "single",
                                   ids |-> <<GapChunkOf(s.loc)[s.loc.fb]>>])]

\* lines 429-436
GapAfterLoop(s) ==
    IF s.loc.exists_long THEN GapSingle([s EXCEPT !.loc.fb = 1])
    ELSE GapCommit(s)

\* lines 409-420 for one entry that has an eid. The variable authors is
\* assigned only by an entry that has an author list and is not flagged as
\* truncated (line 417); line 419 reads it for every entry that is not
\* skipped, so a truncated entry uses the value of an earlier entry, and
\* raises UnboundLocalError when there was none in this invocation.
GapEntry(acc, entry) ==
    LET current_id == eid_to_scopus_id(entry.eid)
        bound == IF entry.truncated
                 THEN [acc EXCEPT !.exists_long = TRUE]
                 ELSE [acc EXCEPT !.authors = entry.author,
                                  !.authors_bound = TRUE]
    IN IF acc.raised THEN acc
       ELSE IF ~entry.truncated /\ ~entry.has_author THEN acc
       ELSE IF ~bound.authors_bound THEN [bound EXCEPT !.raised = TRUE]
       ELSE [bound EXCEPT !.author_pub =
                [a \in DOMAIN @ |->
                    IF a \in bound.authors THEN @[a] \cup {current_id}
                    ELSE @[a]]]

RECURSIVE GapEntries(_, _, _)
GapEntries(acc, entries, i) ==
    IF i > Len(entries) THEN acc
    ELSE GapEntries(GapEntry(acc, entries[i]), entries, i + 1)

\* a loop that asks for one more page when the count has reached the total
GapAfterPageStrict(s) ==
    IF s.loc.retrieved > s.loc.num_results THEN GapAfterLoop(s)
    ELSE [s EXCEPT !.pc = "gap_chunk", !.loc.attempt = 0, !.loc.first = FALSE]

\* lines 422-427: after a page, the loop ends or the next page is requested
GapAfterPage(s) ==
    IF s.loc.retrieved >= s.loc.num_results THEN GapAfterLoop(s)
    ELSE [s EXCEPT !.pc = "gap_chunk", !.loc.attempt = 0, !.loc.first = FALSE]

\* lines 395-420: one page of the chunk's results
GapPage(s, js) ==
    LET entries == js.entry
        with_eid == SelectSeq(entries, LAMBDA e : e.has_eid)
        acc == GapEntries([author_pub |-> s.loc.author_pub,
                           exists_long |-> s.loc.exists_long,
                           authors_bound |-> s.loc.authors_bound,
                           authors |-> s.loc.authors,
                           raised |-> FALSE], with_eid, 1)
        s2 == [s EXCEPT
                !.loc.start = @ + Len(entries),
                !.loc.retrieved = @ + Len(entries),
                !.loc.scopus_ids =
                    @ \cup {eid_to_scopus_id(e.eid) : e \in Range(with_eid)},
                !.loc.author_pub = acc.author_pub,
                !.loc.exists_long = acc.exists_long,
                !.loc.authors_bound = acc.authors_bound,
                !.loc.authors = acc.authors]
    IN IF acc.raised THEN Return(s2, "raise", {}) ELSE GapAfterPage(s2)

\* call_api returned js to the chunk loop: lines 384-394 after the first
\* request of a chunk, the loop body after a later one
GapGotJs(s, js) ==
    IF s.loc.first
    THEN LET s1 == [s EXCEPT
                    !.loc.num_results = js.total,
                    !.loc.retrieved = 0,
                    !.loc.author_pub = [a \in Range(GapChunkOf(s.loc)) |-> {}],
                    !.loc.exists_long = FALSE]
         IN IF 0 < js.total THEN GapPage(s1, js) ELSE GapAfterLoop(s1)
    ELSE GapPage(s, js)

\* lines 381-382 and 426-427: call_api returned None to the chunk loop
GapGotNone(s) == Return(s, "abort", {})

\* lines 434-436: get_single_author_publications returned pubs, or None
SingleReturned(s, is_none, pubs) ==
    LET a == GapChunkOf(s.loc)[s.loc.fb]
        s1 == IF ~is_none THEN [s EXCEPT !.loc.author_pub = Put(@, a, pubs)]
              ELSE IF s.loc.author_pub[a] = {} THEN s
              ELSE [s EXCEPT !.hist.failed = @ \cup {a}]
    IN GapSingle([s1 EXCEPT !.loc.fb = @ + 1])

\* lines 298-317: one page of the single author's results
SinglePage(s, js) ==
    LET entries == js.entry
        with_eid == SelectSeq(entries, LAMBDA e : e.has_eid)
        s2 == [s EXCEPT
                !.loc.s_start = @ + Len(entries),
                !.loc.s_retrieved = @ + Len(entries),
                !.loc.s_ids =
                    @ \cup {eid_to_scopus_id(e.eid) : e \in Range(with_eid)}]
    IN IF s2.loc.s_retrieved >= s2.loc.s_num
       THEN SingleReturned(s2, FALSE, s2.loc.s_ids)
       ELSE [s2 EXCEPT !.pc = "gap_single",
                       !.loc.attempt = 0, !.loc.first = FALSE]

\* call_api returned js to get_single_author_publications (lines 295-299)
SingleGotJs(s, js) ==
    IF s.loc.first
    THEN LET s1 == [s EXCEPT !.loc.s_num = js.total, !.loc.s_retrieved = 0]
         IN IF 0 < js.total THEN SinglePage(s1, js)
            ELSE SingleReturned(s1, FALSE, s1.loc.s_ids)
    ELSE SinglePage(s, js)

\* lines 292-293 and 316-317
SingleGotNone(s) == SingleReturned(s, TRUE, {})

\* routing that sends every id to the remote, cached or not
RoutedAll(ids, keys, force) == ids

\* the ids of ids that the loaded cache does not hold, in order (lines
\* 345-359), or all of them under force_reload
Routed(ids, keys, force) ==
    IF force THEN ids ELSE SelectSeq(ids, LAMBDA x : x \notin keys)

\* lines 337-368 of get_author_publications
GapStart(ids, force) ==
    /\ pc = "idle"
    /\ budget.invocations > 0
    /\ LET m == Load(disk, mem, "author_pub")
           cache == m["author_pub"].data
           hits == IF force THEN {} ELSE Range(ids) \cap DOMAIN cache
           l == [NoLocals EXCEPT
                    !.ids_new = Routed(ids, DOMAIN cache, force),
                    !.scopus_ids = UNION {cache[a] : a \in hits},
                    !.idx = 1]
       IN Becomes(GapChunk([Cur EXCEPT
                !.mem = m, !.loc = l, !.ret = NoReturn,
                !.hist = Started(hist, cache, hits, inv, ret,
                                 disk["author_pub"].data)]))
    /\ inv' = [NoInvocation EXCEPT !.op = "gap", !.ids = ids, !.force = force]
    /\ budget' = [budget EXCEPT !.invocations = @ - 1]
    /\ last' = NoExchange

GetAuthorPublications ==
    /\ inv.op = "none"
    /\ \E ids \in RequestLists(CHUNK_AUTHOR_PUB), force \in BOOLEAN :
            GapStart(ids, force)
    /\ UNCHANGED <<citations, hres, aggVars, dec>>

---------------------------------------------------------------------------
(* call_api, where get_author_publications and                             *)
(* get_single_author_publications wait for it                              *)

InCallApi == pc \in {"gap_chunk", "gap_single"}

\* how the code tells the statuses apart (lines 145 and 148)
StatusClass(status) ==
    IF status = STATUS_OK THEN "ok"
    ELSE IF status \in TransientStatus THEN "transient"
    ELSE "other"

\* the exchange just made: the operation and the place that waited for the
\* answer, the kind of answer and what the code did with it; payload is the
\* kind of body of an answer to a detail request
Exchange(status, outcome) ==
    [op |-> inv.op, at |-> pc, answer |-> StatusClass(status),
     payload |-> "none", outcome |-> outcome]

\* the exchange of a detail request answered with body
DetailExchange(status, body) ==
    [Exchange(status, IF body.kind = "nonjson" THEN "raised" ELSE "consumed")
        EXCEPT !.payload = body.kind]

\* line 143: one more request of call_api is answered, with a status of the
\* class answer; the request is the first of its invocation of call_api
\* when no request of the loop was answered before; none says that call_api
\* returns None after it
Tally(s, answer, none) ==
    IF ~s.hist.counting THEN s
    ELSE [s EXCEPT
            !.hist.calls = IF s.loc.attempt = 0 THEN @ + 1 ELSE @,
            !.hist.requests = @ + 1,
            !.hist.transients =
                (IF s.loc.attempt = 0 THEN 0 ELSE @)
                    + (IF answer = "transient" THEN 1 ELSE 0),
            !.hist.nones = IF none THEN @ + 1 ELSE @]

\* call_api returned js
GotJs(s, js) == IF s.pc = "gap_chunk" THEN GapGotJs(s, js) ELSE SingleGotJs(s, js)
\* call_api returned None
GotNone(s) == IF s.pc = "gap_chunk" THEN GapGotNone(s) ELSE SingleGotNone(s)

\* lines 143-147: the request is answered 200 and the parsed body returned
CallApiOk ==
    /\ InCallApi
    /\ \E js \in IF pc = "gap_single"
                  THEN SingleAnswers(GapChunkOf(loc)[loc.fb], loc.first,
                                     budget.s_entries)
                  ELSE SearchAnswers(loc.first, budget.entries) :
        /\ Becomes(GotJs(Received(Tally(Cur, "ok", FALSE), js), js))
        /\ budget' = IF pc = "gap_single"
                     THEN ServedSingle(budget, loc.first, js)
                     ELSE Served(budget, loc.first, js)
    /\ last' = Exchange(STATUS_OK, "returned")
    /\ UNCHANGED <<inv, citations, hres, aggVars, dec>>

\* line 142: whether the loop has a request left after `attempt` earlier
\* requests and the one just answered
RetriesLeft(attempt) == attempt + 1 < RETRY_LIMIT

\* lines 148 and 153-156: the request is answered 503 or 504; the loop goes
\* on to the next request, or ends after the tenth and None is returned
CallApiTransient ==
    /\ InCallApi
    /\ \E status \in TransientStatus :
        IF RetriesLeft(loc.attempt)
        THEN /\ Becomes([Tally(Cur, "transient", FALSE)
                            EXCEPT !.loc.attempt = @ + 1])
             /\ last' = Exchange(status, "retried")
        ELSE /\ Becomes(GotNone(Tally(Cur, "transient", TRUE)))
             /\ last' = Exchange(status, "exhausted")
    /\ UNCHANGED <<inv, budget, citations, hres, aggVars, dec>>

\* lines 148-151: any other status ends the loop and None is returned
CallApiFailed ==
    /\ InCallApi
    /\ \E status \in OtherStatus :
        /\ Becomes(GotNone(Tally(Cur, "other", TRUE)))
        /\ last' = Exchange(status, "failed")
    /\ UNCHANGED <<inv, budget, citations, hres, aggVars, dec>>

---------------------------------------------------------------------------
(* decode_cite_info and decode_author_response                             *)

\* A raw citeInfo entry: every field but the identifier may be missing
\* (has_author and has_cc say that the field is there and is a list).
\* Numbers the remote sends as text are numbers here.
CiteInfo(id, title, journal, year, author, cc, pcc, lcc) ==
    [identifier |-> ScopusIdPrefix \o id,
     has_title |-> title.has, title |-> title.val,
     has_journal |-> journal.has, journal |-> journal.val,
     has_year |-> year.has, year |-> year.val,
     has_author |-> author.has, author |-> author.val,
     has_cc |-> cc.has, cc |-> cc.val,
     has_pcc |-> pcc.has, pcc |-> pcc.val,
     has_lcc |-> lcc.has, lcc |-> lcc.val]

Some(v) == [has |-> TRUE, val |-> v]
None(v) == [has |-> FALSE, val |-> v]

RECURSIVE SumSeq(_)
SumSeq(q) == IF q = <<>> THEN 0 ELSE Head(q) + SumSeq(Tail(q))

\* lines 488-491
cite_names(cite_type) ==
    CASE cite_type = "all" -> "cites_by_year"
      [] cite_type = "exclude-self" -> "cites_by_year_excl_self"
      [] cite_type = "exclude-books" -> "cites_by_year_excl_books"

\* lines 470-503. The citation vector is stored under the column of the cite
\* type (line 493) and line 501 reads info['cites_by_year']: under another
\* cite type than 'all' there is no such key and KeyError is raised.
decode_cite_info(cite_info, start_year, cite_type) ==
    LET col_name == cite_names(cite_type)
        by_year == IF cite_info.has_cc THEN cite_info.cc ELSE <<>>
        pcc == IF cite_info.has_pcc THEN cite_info.pcc ELSE 0
        lcc == IF cite_info.has_lcc THEN cite_info.lcc ELSE 0
        raised == col_name # "cites_by_year"
    IN [raised |-> raised,
        scopus_id |-> StripIdentifier(cite_info.identifier),
        title |-> IF cite_info.has_title THEN cite_info.title ELSE "",
        journal |-> IF cite_info.has_journal THEN cite_info.journal ELSE "",
        year |-> IF cite_info.has_year THEN cite_info.year ELSE 0,
        authors |-> IF cite_info.has_author THEN cite_info.author ELSE <<>>,
        cites_col |-> col_name,
        cites |-> by_year,
        pcc |-> pcc,
        lcc |-> lcc,
        cites_start_year |-> start_year,
        ncites |-> IF raised THEN 0 ELSE SumSeq(by_year) + pcc + lcc]

\* A raw author entry: the fields decode_author_response copies are one
\* value, ver, here; tombstone says that the profile has an alias whose
\* current status is 'tombstone'.
AuthorEntry(id, ver, tombstone) ==
    [identifier |-> AuthorIdPrefix \o id, ver |-> ver, tombstone |-> tombstone]

\* lines 645-682: None for a tombstone, the decoded record otherwise
decode_author_response(author) ==
    [none |-> author.tombstone,
     author_id |-> StripIdentifier(author.identifier),
     ver |-> author.ver]

---------------------------------------------------------------------------
(* The remote's answers to detail requests.                                *)

\* what the remote's data may be at the time of a request
Versions == {1, 2}

YearRanges == {<<2000, 2002>>, <<2000, 2003>>}
CiteTypes == {"all", "exclude-self", "exclude-books"}

\* the citeInfo entry the remote has for publication id, asked for the years
\* of year_range
PubEntry(id, year_range, ver) ==
    CiteInfo(id, Some("t"), Some("j"), Some(year_range[1]), Some(<<Id(1)>>),
             Some([y \in 1..(year_range[2] - year_range[1]) |-> ver]),
             Some(ver), Some(0))

\* The body of an answer to a detail request for the ids of chunk: entries
\* for the ids (for all but the first when the remote leaves one out), a
\* service-error that says RESOURCE_NOT_FOUND, another service-error, or a
\* body that is no JSON.
DetailBodies(status) ==
    IF status = STATUS_OK
    THEN {[kind |-> "entries", ver |-> v, omit |-> o, tombstone |-> t] :
            v \in Versions, o \in BOOLEAN, t \in BOOLEAN}
    ELSE {[kind |-> k, ver |-> 1, omit |-> FALSE, tombstone |-> FALSE] :
            k \in IF status \in TransientStatus THEN {"error", "nonjson"}
                  ELSE {"not_found", "error", "nonjson"}}

Answered(chunk, body) == IF body.omit THEN Tail(chunk) ELSE chunk

\* The raw entries decode_cite_info is applied to: an entry carries its
\* identifier, and each of the fields title, journal name, year, author
\* list, citation array, pcc and lcc is there or missing.
Field(has, v, missing) == IF has THEN Some(v) ELSE None(missing)

RawEntries ==
    {CiteInfo(Id(1), Field(t, "t", ""), Field(j, "j", ""), Field(y, 2001, 0),
              Field(a, <<Id(1), Id(2)>>, <<>>), Field(c, <<1, 2>>, <<>>),
              Field(p, 3, 0), Field(l, 4, 0)) :
        t \in BOOLEAN, j \in BOOLEAN, y \in BOOLEAN, a \in BOOLEAN,
        c \in BOOLEAN, p \in BOOLEAN, l \in BOOLEAN}

NoRecord ==
    [raised |-> FALSE, scopus_id |-> <<>>, title |-> "", journal |-> "",
     year |-> 0, authors |-> <<>>, cites_col |-> "", cites |-> <<>>,
     pcc |-> 0, lcc |-> 0, cites_start_year |-> 0, ncites |-> 0]

NoDecode ==
    [done |-> FALSE,
     cite_info |-> CiteInfo(<<>>, None(""), None(""), None(0), None(<<>>),
                            None(<<>>), None(0), None(0)),
     start_year |-> 0, cite_type |-> "all", record |-> NoRecord]

\* the calls of decode_cite_info of the model
Decodings ==
    {[NoDecode EXCEPT !.cite_info = e, !.start_year = 2000, !.cite_type = t] :
        e \in RawEntries, t \in CiteTypes}

\* decode_cite_info(cite_info, start_year, cite_type)
DecodeCiteInfo ==
    /\ ~dec.done
    /\ dec' = [dec EXCEPT
                !.done = TRUE,
                !.record = decode_cite_info(dec.cite_info, dec.start_year,
                                            dec.cite_type)]
    /\ UNCHANGED <<citations, hres, fetchVars, aggVars>>

---------------------------------------------------------------------------
(* get_publication_info                                                    *)

PubKey(id, year_range, cite_type) == <<id, year_range, cite_type>>

\* line 540 and line 602
cache_key(id, year_range, cite_type) == PubKey(id, year_range, cite_type)

\* lines 613-631: the cache is saved; the dataframe of the decoded records
\* is indexed by 'scopus_id', which raises KeyError when there is no record
GpiFinish(s) ==
    LET s1 == [s EXCEPT !.disk = Save(s.disk, s.mem, "pub_info")]
    IN IF s1.loc.records = <<>> THEN Return(s1, "raise", {})
       ELSE Return(s1, "result", s1.loc.records)

\* lines 573-579: the next chunk's request is sent, or the loop ends
GpiChunk(s) ==
    IF s.loc.idx > Len(chunks(s.loc.ids_new, CHUNK_PUB_INFO))
    THEN GpiFinish(s)
    ELSE [s EXCEPT !.pc = "gpi_chunk",
                   !.hist.queries =
                        Append(@, [kind |-> "chunk",
                                   ids |-> chunks(s.loc.ids_new,
                                                  CHUNK_PUB_INFO)[s.loc.idx]])]

\* lines 609-611, then the next chunk
GpiNext(s) ==
    LET s1 == IF s.loc.idx % SAVE_EVERY_PUB = 0
              THEN [s EXCEPT !.disk = Save(s.disk, s.mem, "pub_info")]
              ELSE s
    IN GpiChunk([s1 EXCEPT !.loc.idx = @ + 1])

\* lines 599-607 for the entries from the i-th on
RECURSIVE GpiEntries(_, _, _, _, _)
GpiEntries(s, entries, i, year_range, cite_type) ==
    IF i > Len(entries) THEN s
    ELSE LET entry == entries[i]
             scopus_id == StripIdentifier(entry.identifier)
             pub == decode_cite_info(entry, year_range[1], cite_type)
             s1 == [s EXCEPT
                     !.mem["pub_info"].data =
                         Put(@, cache_key(scopus_id, year_range, cite_type),
                             entry),
                     !.hist.fetched = @ \cup {scopus_id}]
         IN IF pub.raised THEN Return(s1, "raise", {})
            ELSE GpiEntries([s1 EXCEPT !.loc.records = Append(@, pub)],
                            entries, i + 1, year_range, cite_type)

\* an answer handling that caches a placeholder entry for every id of a
\* chunk answered with RESOURCE_NOT_FOUND
GpiGotPlaceholder(s, body, year_range, cite_type) ==
    LET chunk == chunks(s.loc.ids_new, CHUNK_PUB_INFO)[s.loc.idx]
        entries == [i \in 1..Len(Answered(chunk, body)) |->
                        PubEntry(Answered(chunk, body)[i], year_range, body.ver)]
        seen == [s EXCEPT !.hist.omitted =
                    @ \cup (Range(chunk) \ Range(Answered(chunk, body)))]
        s1 == GpiEntries(seen, entries, 1, year_range, cite_type)
        held == [k \in {cache_key(id, year_range, cite_type) :
                            id \in Range(chunk)} |->
                    PubEntry(k[1], year_range, 1)]
    IN CASE body.kind = "nonjson" -> Return(s, "raise", {})
         [] body.kind = "not_found" ->
                GpiNext([s EXCEPT !.loc.res_not_found = @ + 1,
                                  !.mem["pub_info"].data = Update(@, held),
                                  !.hist.not_found = @ \cup Range(chunk)])
         [] body.kind = "error" -> GpiFinish(s)
         [] body.kind = "entries" ->
                IF s1.pc = "idle" THEN s1 ELSE GpiNext(s1)

\* lines 579-611: the answer to a chunk's request. The status is not looked
\* at: the body is parsed (which raises when it is no JSON) and consumed.
GpiGot(s, body, year_range, cite_type) ==
    LET chunk == chunks(s.loc.ids_new, CHUNK_PUB_INFO)[s.loc.idx]
        entries == [i \in 1..Len(Answered(chunk, body)) |->
                        PubEntry(Answered(chunk, body)[i], year_range, body.ver)]
        seen == [s EXCEPT !.hist.omitted =
                    @ \cup (Range(chunk) \ Range(Answered(chunk, body)))]
        s1 == GpiEntries(seen, entries, 1, year_range, cite_type)
    IN CASE body.kind = "nonjson" -> Return(s, "raise", {})
         [] body.kind = "not_found" ->
                GpiNext([s EXCEPT !.loc.res_not_found = @ + 1,
                                  !.hist.not_found = @ \cup Range(chunk)])
         [] body.kind = "error" -> GpiFinish(s)
         [] body.kind = "entries" ->
                IF s1.pc = "idle" THEN s1 ELSE GpiNext(s1)

\* lines 526-571
GpiStart(ids, year_range, cite_type, force) ==
    /\ pc = "idle"
    /\ budget.invocations > 0
    /\ LET m == Load(disk, mem, "pub_info")
           cache == m["pub_info"].data
           keys == {id \in Range(ids) :
                        cache_key(id, year_range, cite_type) \in DOMAIN cache}
           hit_list == IF force THEN <<>>
                       ELSE SelectSeq(ids, LAMBDA x : x \in keys)
           pubs == [i \in 1..Len(hit_list) |->
                        decode_cite_info(
                            cache[cache_key(hit_list[i], year_range, cite_type)],
                            year_range[1], cite_type)]
           l == [NoLocals EXCEPT
                    !.ids_new = Routed(ids, keys, force),
                    !.records = pubs,
                    !.idx = 1]
           s == [Cur EXCEPT
                    !.mem = m, !.loc = l, !.ret = NoReturn,
                    !.hist = Started(hist, cache, Range(hit_list), inv, ret,
                                     disk["pub_info"].data)]
       IN IF \E i \in 1..Len(pubs) : pubs[i].raised
          THEN Becomes(Return([s EXCEPT !.loc.records = <<>>], "raise", {}))
          ELSE Becomes(GpiChunk(s))
    /\ inv' = [NoInvocation EXCEPT !.op = "gpi", !.ids = ids, !.force = force,
                                   !.year_range = year_range,
                                   !.cite_type = cite_type]
    /\ budget' = [budget EXCEPT !.invocations = @ - 1]
    /\ last' = NoExchange

GetPublicationInfo ==
    /\ inv.op = "none"
    /\ \E ids \in RequestLists(CHUNK_PUB_INFO), year_range \in YearRanges,
          cite_type \in CiteTypes, force \in BOOLEAN :
            GpiStart(ids, year_range, cite_type, force)
    /\ UNCHANGED <<citations, hres, aggVars, dec>>

\* line 578: requests.get is answered; whatever the status, the answer is
\* consumed as the chunk's answer
GpiAnswer ==
    /\ pc = "gpi_chunk"
    /\ \E status \in {STATUS_OK} \cup TransientStatus \cup OtherStatus :
        \E body \in DetailBodies(status) :
            /\ ~body.tombstone
            /\ Becomes(GpiGot(Cur, body, inv.year_range, inv.cite_type))
            /\ last' = DetailExchange(status, body)
    /\ UNCHANGED <<inv, budget, citations, hres, aggVars, dec>>

---------------------------------------------------------------------------
(* get_author_info                                                         *)

\* lines 771-799: the cache is saved; the columns of the dataframe of the
\* decoded records are converted, which raises KeyError when there is no
\* record
GaiFinish(s) ==
    LET s1 == [s EXCEPT !.disk = Save(s.disk, s.mem, "author_info")]
    IN IF s1.loc.records = <<>> THEN Return(s1, "raise", {})
       ELSE Return(s1, "result", s1.loc.records)

\* lines 740-745
GaiChunk(s) ==
    IF s.loc.idx > Len(chunks(s.loc.ids_new, CHUNK_AUTHOR_INFO))
    THEN GaiFinish(s)
    ELSE [s EXCEPT !.pc = "gai_chunk",
                   !.hist.queries =
                        Append(@, [kind |-> "chunk",
                                   ids |-> chunks(s.loc.ids_new,
                                                  CHUNK_AUTHOR_INFO)[s.loc.idx]])]

\* lines 767-769, then the next chunk
GaiNext(s) ==
    LET s1 == IF s.loc.idx % SAVE_EVERY_AUTHOR = 0
              THEN [s EXCEPT !.disk = Save(s.disk, s.mem, "author_info")]
              ELSE s
    IN GaiChunk([s1 EXCEPT !.loc.idx = @ + 1])

\* lines 757-765 for the entries from the i-th on
RECURSIVE GaiEntries(_, _, _)
GaiEntries(s, entries, i) ==
    IF i > Len(entries) THEN s
    ELSE LET entry == entries[i]
             author_id == StripIdentifier(entry.identifier)
             author == decode_author_response(entry)
             s1 == [s EXCEPT
                     !.mem["author_info"].data = Put(@, author_id, entry),
                     !.hist.fetched = @ \cup {author_id},
                     !.loc.records =
                        IF author.none THEN @ ELSE Append(@, author)]
         IN GaiEntries(s1, entries, i + 1)

\* lines 745-769: the answer to a chunk's request; every service-error
\* ends the loop
GaiGot(s, body) ==
    LET chunk == chunks(s.loc.ids_new, CHUNK_AUTHOR_INFO)[s.loc.idx]
        entries == [i \in 1..Len(Answered(chunk, body)) |->
                        AuthorEntry(Answered(chunk, body)[i], body.ver,
                                    body.tombstone /\ i = 1)]
        seen == [s EXCEPT !.hist.omitted =
                    @ \cup (Range(chunk) \ Range(Answered(chunk, body)))]
    IN CASE body.kind = "nonjson" -> Return(s, "raise", {})
         [] body.kind = "not_found" ->
                GaiFinish([s EXCEPT !.hist.not_found = @ \cup Range(chunk)])
         [] body.kind = "error" -> GaiFinish(s)
         [] body.kind = "entries" -> GaiNext(GaiEntries(seen, entries, 1))

\* lines 699-738
GaiStart(ids, force) ==
    /\ pc = "idle"
    /\ budget.invocations > 0
    /\ LET m == Load(disk, mem, "author_info")
           cache == m["author_info"].data
           keys == Range(ids) \cap DOMAIN cache
           hit_list == IF force THEN <<>>
                       ELSE SelectSeq(ids, LAMBDA x : x \in keys)
           decoded == [i \in 1..Len(hit_list) |->
                        decode_author_response(cache[hit_list[i]])]
           l == [NoLocals EXCEPT
                    !.ids_new = Routed(ids, keys, force),
                    !.records = SelectSeq(decoded, LAMBDA a : ~a.none),
                    !.idx = 1]
       IN Becomes(GaiChunk([Cur EXCEPT
                !.mem = m, !.loc = l, !.ret = NoReturn,
                !.hist = Started(hist, cache, Range(hit_list), inv, ret,
                                 disk["author_info"].data)]))
    /\ inv' = [NoInvocation EXCEPT !.op = "gai", !.ids = ids, !.force = force]
    /\ budget' = [budget EXCEPT !.invocations = @ - 1]
    /\ last' = NoExchange

GetAuthorInfo ==
    /\ inv.op = "none"
    /\ \E ids \in RequestLists(CHUNK_AUTHOR_INFO), force \in BOOLEAN :
            GaiStart(ids, force)
    /\ UNCHANGED <<citations, hres, aggVars, dec>>

\* line 744: requests.get is answered; the answer is consumed whatever the
\* status
GaiAnswer ==
    /\ pc = "gai_chunk"
    /\ \E status \in {STATUS_OK} \cup TransientStatus \cup OtherStatus :
        \E body \in DetailBodies(status) :
            /\ Becomes(GaiGot(Cur, body))
            /\ last' = DetailExchange(status, body)
    /\ UNCHANGED <<inv, budget, citations, hres, aggVars, dec>>

---------------------------------------------------------------------------
(* get_authors_from_journal_year                                           *)

\* the search queries built from year, journal and issn (lines 215-219)
SearchQueries == {"PUBYEAR+IS+2016 AND ISSN(1)", "PUBYEAR+IS+2016 AND ISSN(2)"}

\* lines 262-269
GajyFinish(s, query) ==
    LET m == [s.mem EXCEPT !["search_query"].data = Put(@, query, s.loc.found)]
    IN Return([s EXCEPT !.mem = m, !.disk = Save(s.disk, m, "search_query")],
              "result", s.loc.found)

\* lines 242-256: one page of results
GajyPage(s, js, query) ==
    LET entries == js.entry
        s2 == [s EXCEPT
                !.loc.found =
                    @ \cup UNION {entries[i].author :
                                    i \in {k \in 1..Len(entries) :
                                            entries[k].has_author}},
                !.loc.start = @ + Len(entries),
                !.loc.retrieved = @ + Len(entries)]
    IN IF s2.loc.retrieved >= s2.loc.num_results THEN GajyFinish(s2, query)
       ELSE [s2 EXCEPT !.pc = "gajy_page", !.loc.first = FALSE]

\* lines 236-242 after the first request, the loop body after a later one
GajyGotJs(s, js, query) ==
    IF s.loc.first
    THEN LET s1 == [s EXCEPT !.loc.num_results = js.total,
                             !.loc.retrieved = 0, !.loc.found = {}]
         IN IF 0 < js.total THEN GajyPage(s1, js, query)
            ELSE GajyFinish(s1, query)
    ELSE GajyPage(s, js, query)

\* lines 215-235
GajyStart(query, force) ==
    /\ pc = "idle"
    /\ budget.invocations > 0
    /\ LET m == Load(disk, mem, "search_query")
           cache == m["search_query"].data
           hit == ~force /\ query \in DOMAIN cache
           s == [Cur EXCEPT
                    !.mem = m, !.loc = NoLocals, !.ret = NoReturn,
                    !.hist = Started(hist, cache,
                                     IF hit THEN {query} ELSE {}, inv, ret,
                                     disk["search_query"].data)]
       IN IF hit THEN Becomes(Return(s, "result", cache[query]))
          ELSE Becomes([s EXCEPT
                    !.pc = "gajy_page", !.loc.first = TRUE,
                    !.hist.queries =
                        Append(@, [kind |-> "search", ids |-> <<query>>])])
    /\ inv' = [NoInvocation EXCEPT !.op = "gajy", !.query = query,
                                   !.ids = <<query>>, !.force = force]
    /\ budget' = [budget EXCEPT !.invocations = @ - 1]
    /\ last' = NoExchange

GetAuthorsFromJournalYear ==
    /\ inv.op = "none"
    /\ \E query \in SearchQueries, force \in BOOLEAN : GajyStart(query, force)
    /\ UNCHANGED <<citations, hres, aggVars, dec>>

\* lines 235-236 and 255-256: requests.get is answered 200 with a page
GajyAnswer ==
    /\ pc = "gajy_page"
    /\ \E js \in SearchAnswers(loc.first, budget.entries) :
        /\ Becomes(GajyGotJs(Received(Cur, js), js, inv.query))
        /\ budget' = Served(budget, loc.first, js)
    /\ last' = Exchange(STATUS_OK, "consumed")
    /\ UNCHANGED <<inv, citations, hres, aggVars, dec>>

\* lines 235-238 and 255-256: requests.get is answered with another status;
\* the body is no JSON or has no 'search-results', and parsing or reading it
\* raises
GajyAnswerBad ==
    /\ pc = "gajy_page"
    /\ \E status \in TransientStatus \cup OtherStatus :
        /\ Becomes(Return(Cur, "raise", {}))
        /\ last' = Exchange(status, "raised")
    /\ UNCHANGED <<inv, budget, citations, hres, aggVars, dec>>

---------------------------------------------------------------------------
(* The same operation invoked again on the same arguments, with            *)
(* force_reload off.                                                       *)

Again ==
    /\ inv.op # "none"
    /\ IF inv.op = "gap" THEN GapStart(inv.ids, FALSE)
       ELSE IF inv.op = "gpi"
            THEN GpiStart(inv.ids, inv.year_range, inv.cite_type, FALSE)
       ELSE IF inv.op = "gai" THEN GaiStart(inv.ids, FALSE)
       ELSE GajyStart(inv.query, FALSE)
    /\ UNCHANGED <<citations, hres, aggVars, dec>>

---------------------------------------------------------------------------
(* utils.hindex applied to a list of citation counts                       *)

CitationLists == SeqsUpTo(0..MaxCite, MaxPubs)

Hindex ==
    /\ ~hres.done
    /\ hres' = [done |-> TRUE, h |-> hindex(citations)]
    /\ UNCHANGED <<citations, fetchVars, aggVars, dec>>

---------------------------------------------------------------------------
(* aggregate.py: the publication-author index and the accumulated number   *)
(* of coauthors                                                            *)

\* A row of the DataFrame pubs: the index label scopus_id and the columns
\* authors (a list of author ids) and year.
PubRow(scopus_id, authors, year) ==
    [scopus_id |-> scopus_id, authors |-> authors, year |-> year]

\* the author lists of the rows: none, one, two, one author twice, and a
\* list with an author who is not in the author universe
AuthorLists ==
    {<<>>, <<Id(1)>>, <<Id(1), Id(2)>>, <<Id(1), Id(1)>>, <<Id(2), Id(3)>>}

PubIds == {Id(1), Id(2)}
PubYears == {1999, 2000, 2001}

\* the DataFrames of the model; the index may repeat a label
PubTables ==
    SeqsUpTo({PubRow(i, a, y) : i \in PubIds, a \in AuthorLists,
                                y \in PubYears}, MaxRows)

\* the year ranges range(start, stop) of the model
AggRanges == {<<2000, 2000 + n>> : n \in 0..MaxYears}

\* authors.index: author 4 has no publication
Universe == {Id(1), Id(2), Id(4)}

\* an index whose entry for an author is the last publication seen
IndexRowLast(author_pub, scopus_id, authors, i) ==
    [a \in DOMAIN author_pub \cup Range(authors) |->
        IF a \in Range(authors) THEN {scopus_id} ELSE author_pub[a]]

\* an index that takes the first author of a row only
IndexRowFirst(author_pub, scopus_id, authors, i) ==
    IF authors = <<>> THEN author_pub
    ELSE [a \in DOMAIN author_pub \cup {authors[1]} |->
            IF a = authors[1]
            THEN (IF a \in DOMAIN author_pub THEN author_pub[a] ELSE {})
                    \cup {scopus_id}
            ELSE author_pub[a]]

\* lines 27-31 of pubs_by_author: the authors of one row, from the i-th on
RECURSIVE IndexRow(_, _, _, _)
IndexRow(author_pub, scopus_id, authors, i) ==
    IF i > Len(authors) THEN author_pub
    ELSE LET author == authors[i]
             added == IF author \in DOMAIN author_pub
                      THEN [author_pub EXCEPT ![author] = @ \cup {scopus_id}]
                      ELSE Put(author_pub, author, {scopus_id})
         IN IndexRow(added, scopus_id, authors, i + 1)

\* line 26: the rows of pubs, from the r-th on
RECURSIVE IndexRows(_, _, _)
IndexRows(author_pub, rows, r) ==
    IF r > Len(rows) THEN author_pub
    ELSE IndexRows(IndexRow(author_pub, rows[r].scopus_id, rows[r].authors, 1),
                   rows, r + 1)

pubs_by_author(rows) == IndexRows(EmptyMap, rows, 1)

\* utils.set_union on a sequence of lists
RECURSIVE set_union(_)
set_union(sets) ==
    IF sets = <<>> THEN {} ELSE Range(Head(sets)) \cup set_union(Tail(sets))

\* pubs.loc[labels]: the rows whose index label is in labels
Loc(rows, labels) == SelectSeq(rows, LAMBDA r : r.scopus_id \in labels)

\* the column authors of the rows whose year is in years
AuthorsWhere(rows, years) ==
    LET kept == SelectSeq(rows, LAMBDA r : r.year \in years)
    IN [i \in 1..Len(kept) |-> kept[i].authors]

\* len(year_range)
RangeLen(year_range) ==
    IF year_range[2] > year_range[1] THEN year_range[2] - year_range[1] ELSE 0

\* lines 275-282: the authors of the rows of a year of the range, set() for
\* a year without rows
CoauthorsOfYear(rows, year) ==
    set_union(AuthorsWhere(rows, {year}))

\* a loop that keeps the authors of the current year only
AccLoopYearly(rows, year_range, idx, coauthors_now, res) ==
    [i \in 1..RangeLen(year_range) |->
        Cardinality(CoauthorsOfYear(rows, year_range[1] + i - 1))]

\* lines 288-290: the loop over the years, from the one at idx on
RECURSIVE AccLoop(_, _, _, _, _)
AccLoop(rows, year_range, idx, coauthors_now, res) ==
    IF idx >= RangeLen(year_range) THEN res
    ELSE LET now == coauthors_now
                        \cup CoauthorsOfYear(rows, year_range[1] + idx)
         IN AccLoop(rows, year_range, idx + 1, now,
                    Append(res, Cardinality(now)))

\* _ncoauthors_acc(pubs, year_range), lines 271-292
_ncoauthors_acc(rows, year_range) ==
    AccLoop(rows, year_range, 0,
            set_union(AuthorsWhere(rows, {y \in PubYears : y < year_range[1]})),
            <<>>)

\* lines 61-63 of aggregate_author_info: the index restricted to the author
\* universe, an author without publication having none
AuthorPubs(index) ==
    [k \in Universe |-> IF k \in DOMAIN index THEN index[k] ELSE {}]

NoAggregate ==
    [indexed |-> FALSE, author_pub |-> EmptyMap,
     acc_done |-> FALSE, ncoauthors_acc |-> EmptyMap]

\* pubs_by_author(pubs)
PubsByAuthor ==
    /\ ~agg.indexed
    /\ agg' = [agg EXCEPT !.indexed = TRUE,
                          !.author_pub = pubs_by_author(pubtable)]
    /\ UNCHANGED <<pubtable, yrange, info, dec, citations, hres, fetchVars>>

\* ncoauthors_acc(authors, author_pubs, pubs, year_range), lines 249-269,
\* as aggregate_author_info calls it
NcoauthorsAcc ==
    /\ agg.indexed /\ ~agg.acc_done
    /\ \E year_range \in AggRanges :
        /\ yrange' = year_range
        /\ agg' = [agg EXCEPT
                    !.acc_done = TRUE,
                    !.ncoauthors_acc =
                        [a \in Universe |->
                            _ncoauthors_acc(
                                Loc(pubtable, AuthorPubs(agg.author_pub)[a]),
                                year_range)]]
    /\ UNCHANGED <<pubtable, info, dec, citations, hres, fetchVars>>

---------------------------------------------------------------------------
(* aggregate.py: aggregate_author_info                                     *)

\* A row of pubs as get_publication_info builds it (scopus.py, lines 470-503
\* and 627): the columns of PubRow and cites_start_year and cites_by_year.
CiteRow(scopus_id, authors, year, cites_start_year, cites_by_year) ==
    [scopus_id |-> scopus_id, authors |-> authors, year |-> year,
     cites_start_year |-> cites_start_year, cites_by_year |-> cites_by_year]

\* author lists: one author, two authors, and a list with an author who is
\* not in the author universe
InfoAuthorLists == {<<Id(1)>>, <<Id(1), Id(2)>>, <<Id(2), Id(3)>>}

\* the citation vectors of a row fetched for the years from 2000 on: one
\* count per year, or none when the remote sent no 'cc' (scopus.py, line 496)
InfoStartYear == 2000
CiteVectors == {<<>>, [i \in 1..MaxYears |-> 1]}

\* the DataFrames aggregate_author_info is called on: the index is unique
\* (the i-th row has the label i), as get_publication_info builds it from
\* the set of ids get_author_publications returns (download_data.py, lines
\* 98-104)
RECURSIVE InfoTablesOf(_)
InfoTablesOf(n) ==
    IF n = 0 THEN {<<>>}
    ELSE LET shorter == InfoTablesOf(n - 1)
         IN shorter
            \cup {Append(t, CiteRow(Id(n), a, y, InfoStartYear, c)) :
                    t \in {u \in shorter : Len(u) = n - 1},
                    a \in InfoAuthorLists, y \in PubYears, c \in CiteVectors}

InfoTables == InfoTablesOf(MaxRows)

\* the columns of the DataFrame get_author_info returns (scopus.py, lines
\* 791-794)
GaiColumns ==
    {"name", "first_name", "last_name", "affiliation", "first_pub",
     "last_pub", "npubs", "ncites", "ncited_by", "ncoauthors", "hindex",
     "pcc", "lcc", "cites_by_year"}

\* lines 69-70: the columns that are dropped from authors
Recomputed ==
    {"npubs", "first_pub", "last_pub", "ncites", "ncoauthors", "hindex"}

\* the columns lines 74-91 give to res
ResColumns ==
    Recomputed \cup {"pcc", "cites_by_year", "lcc", "pubs_by_year",
                     "ncoauthors_mean", "ncoauthors_acc"}

\* the DataFrames authors of the model, by their columns; the index is the
\* author universe: the frame of get_author_info, which download_data.py
\* passes, and a frame without the columns of the citation counts
AuthorFrames == {GaiColumns, GaiColumns \ {"pcc", "lcc", "cites_by_year"}}

\* the argument year_range: a range, or None
NoRange == <<>>
InfoRanges == AggRanges \cup {NoRange}

\* lines 53-58: the range of the first row of pubs
InferredRange(rows) ==
    <<rows[1].cites_start_year,
      rows[1].cites_start_year + Len(rows[1].cites_by_year)>>

\* the column authors of rows
AuthorsOf(rows) == [i \in 1..Len(rows) |-> rows[i].authors]

\* npubs(authors, author_pubs), lines 103-119
npubs(author_pubs) ==
    [a \in DOMAIN author_pubs |-> Cardinality(author_pubs[a])]

\* a count that leaves the author in
ncoauthorsWithSelf(author_pubs, rows) ==
    [a \in DOMAIN author_pubs |->
        Cardinality(set_union(AuthorsOf(Loc(rows, author_pubs[a]))))]

\* ncoauthors(authors, author_pubs, pubs), lines 186-205
ncoauthors(author_pubs, rows) ==
    [a \in DOMAIN author_pubs |->
        Cardinality(set_union(AuthorsOf(Loc(rows, author_pubs[a])))) - 1]

\* numpy adds two one-dimensional arrays entry by entry, stretching an array
\* of one entry; arrays of other lengths that differ cannot be added
\* (ValueError)
Broadcasts(m, n) == m = n \/ m = 1 \/ n = 1

Stretched(u, n) == IF Len(u) = n THEN u ELSE [i \in 1..n |-> u[1]]

AddArrays(u, v) ==
    LET n == IF Len(u) = 1 THEN Len(v) ELSE Len(u)
    IN [i \in 1..n |-> Stretched(u, n)[i] + Stretched(v, n)[i]]

\* line 85: pubs['cites_by_year'].loc[author_pubs[a]].sum(), the arrays
\* from the i-th on being added to acc. The sum of no array is 0, which is
\* the empty vector here.
RECURSIVE SumArrays(_, _, _)
SumArrays(arrays, i, acc) ==
    IF i > Len(arrays) \/ acc.raised THEN acc
    ELSE IF ~Broadcasts(Len(acc.val), Len(arrays[i]))
         THEN [acc EXCEPT !.raised = TRUE]
         ELSE SumArrays(arrays, i + 1,
                        [acc EXCEPT !.val = AddArrays(@, arrays[i])])

SumCitesByYear(rows) ==
    IF rows = <<>> THEN [raised |-> FALSE, val |-> <<>>]
    ELSE SumArrays([i \in 1..Len(rows) |-> rows[i].cites_by_year], 2,
                   [raised |-> FALSE, val |-> rows[1].cites_by_year])

\* year in year_range
InRange(year, year_range) == year_range[1] <= year /\ year < year_range[2]

\* a loop that counts a publication dated before the range in its first year
PbyLoopEarly(rows, year_range, r, res) ==
    [i \in 1..Len(res) |->
        Cardinality({k \in 1..Len(rows) :
            \/ rows[k].year = year_range[1] + i - 1
            \/ i = 1 /\ rows[k].year < year_range[1]})]

\* lines 320-323: the loop over the rows, from the r-th on
RECURSIVE PbyLoop(_, _, _, _)
PbyLoop(rows, year_range, r, res) ==
    IF r > Len(rows) THEN res
    ELSE LET year == rows[r].year
         IN PbyLoop(rows, year_range, r + 1,
                    IF ~InRange(year, year_range) THEN res
                    ELSE [res EXCEPT ![year - year_range[1] + 1] = @ + 1])

\* _pubs_by_year(pubs, year_range), lines 316-325
_pubs_by_year(rows, year_range) ==
    PbyLoop(rows, year_range, 1, [i \in 1..RangeLen(year_range) |-> 0])

\* pubs_by_year(authors, author_pubs, pubs, year_range), lines 294-314
pubs_by_year(author_pubs, rows, year_range) ==
    [a \in DOMAIN author_pubs |->
        _pubs_by_year(Loc(rows, author_pubs[a]), year_range)]

NoInfo ==
    [outcome |-> "none", at |-> 0, given |-> FALSE, year_range |-> <<0, 0>>,
     columns |-> {}, author_pubs |-> EmptyMap, npubs |-> EmptyMap,
     ncoauthors |-> EmptyMap, cites_by_year |-> EmptyMap,
     pubs_by_year |-> EmptyMap, ncoauthors_acc |-> EmptyMap, index |-> {}]

\* aggregate_author_info(authors, pubs, year_range), lines 53-101: the
\* locals when the function returns or raises. The columns first_pub,
\* last_pub, ncites, hindex, pcc, lcc and ncoauthors_mean are numbers
\* computed from the same selection of rows and are left out. Three lines
\* can raise: line 56 on a DataFrame without rows (IndexError), line 85 on
\* citation vectors that cannot be added (ValueError), and line 98 when
\* authors still has a column of res (join without suffixes, ValueError).
aggregate_author_info(authors, rows, year_range) ==
    LET given == year_range # NoRange
        used == IF given THEN year_range ELSE InferredRange(rows)
        author_pubs == AuthorPubs(pubs_by_author(rows))
        kept == authors \ Recomputed
        sums == [a \in Universe |->
                    SumCitesByYear(Loc(rows, author_pubs[a]))]
        l1 == [NoInfo EXCEPT !.given = given, !.columns = authors]
        l2 == [l1 EXCEPT !.year_range = used,
                         !.author_pubs = author_pubs,
                         !.npubs = npubs(author_pubs),
                         !.ncoauthors = ncoauthors(author_pubs, rows)]
        l3 == [l2 EXCEPT
                !.cites_by_year = [a \in Universe |-> sums[a].val],
                !.pubs_by_year = pubs_by_year(author_pubs, rows, used),
                !.ncoauthors_acc =
                    [a \in Universe |->
                        _ncoauthors_acc(Loc(rows, author_pubs[a]), used)]]
    IN IF ~given /\ rows = <<>>
       THEN [l1 EXCEPT !.outcome = "raised", !.at = 56]
       ELSE IF \E a \in Universe : sums[a].raised
       THEN [l2 EXCEPT !.outcome = "raised", !.at = 85]
       ELSE IF kept \cap ResColumns # {}
       THEN [l3 EXCEPT !.outcome = "raised", !.at = 98]
       ELSE [l3 EXCEPT !.outcome = "returned", !.at = 101,
                       !.index = Universe]

AggregateAuthorInfo ==
    /\ info.outcome = "none"
    /\ \E authors \in AuthorFrames, year_range \in InfoRanges :
            info' = aggregate_author_info(authors, pubtable, year_range)
    /\ UNCHANGED <<pubtable, yrange, agg, dec, citations, hres, fetchVars>>

NoAggregation ==
    pubtable = <<>> /\ yrange = <<0, 0>> /\ agg = NoAggregate /\ info = NoInfo

---------------------------------------------------------------------------
(* The specifications.                                                     *)

\* Cache files earlier runs of the operations leave behind: author 1 with
\* publication 1, publication 1 under the first year range and all
\* citations, author 1's profile, and the authors of the first query.
WarmFiles ==
    [c \in Categories |->
        [exists |-> TRUE,
         data |->
            CASE c = "search_query" ->
                    [q \in {CHOOSE q \in SearchQueries : TRUE} |-> {Id(1)}]
              [] c = "author_pub" -> [a \in {Id(1)} |-> {Id(1)}]
              [] c = "pub_info" ->
                    [k \in {cache_key(Id(1), <<2000, 2002>>, "all")} |->
                        PubEntry(Id(1), <<2000, 2002>>, 1)]
              [] c = "author_info" ->
                    [a \in {Id(1)} |-> AuthorEntry(Id(1), 1, FALSE)]]]

\* one invocation of any operation, on no cache files or on warm ones
Init ==
    /\ \E files \in {NoFiles, WarmFiles} : FetchInit(files, 1, TRUE, 0)
    /\ citations = <<>>
    /\ hres = [done |-> FALSE, h |-> 0]
    /\ NoAggregation
    /\ dec = NoDecode

Next ==
    \/ GetAuthorsFromJournalYear
    \/ GajyAnswer
    \/ GajyAnswerBad
    \/ GetAuthorPublications
    \/ CallApiOk
    \/ CallApiTransient
    \/ CallApiFailed
    \/ GetPublicationInfo
    \/ GpiAnswer
    \/ GetAuthorInfo
    \/ GaiAnswer

Spec == Init /\ [][Next]_vars

\* one invocation of any operation on a short request list, on the cache
\* files earlier runs left behind for all four categories
InitFrame ==
    /\ FetchInit(WarmFiles, 1, FALSE, 0)
    /\ citations = <<>>
    /\ hres = [done |-> FALSE, h |-> 0]
    /\ NoAggregation
    /\ dec = NoDecode

SpecFrame == InitFrame /\ [][Next]_vars

\* an invocation on short request lists, starting without cache files, and
\* the same invocation again
InitTwice ==
    /\ FetchInit(NoFiles, MaxInvocations, FALSE, 0)
    /\ citations = <<>>
    /\ hres = [done |-> FALSE, h |-> 0]
    /\ NoAggregation
    /\ dec = NoDecode

NextTwice == Next \/ Again

SpecTwice == InitTwice /\ [][NextTwice]_vars

\* one invocation on a short request list and without cache files, the
\* remote having entries for the queries of the per-author fallback as well
InitFallback ==
    /\ FetchInit(NoFiles, 1, FALSE, MaxSingle)
    /\ citations = <<>>
    /\ hres = [done |-> FALSE, h |-> 0]
    /\ NoAggregation
    /\ dec = NoDecode

SpecFallback == InitFallback /\ [][Next]_vars

\* A request of a page loop is answered 200 with a page that has no entry
\* (lines 395-399, 299-303 and 244-250 with entries = []); the remote may
\* do so any number of times, so the bound on entries does not count it.
EmptyPage ==
    /\ pc \in {"gap_chunk", "gap_single", "gajy_page"}
    /\ \E js \in {a \in SearchAnswers(loc.first, 1) :
                    a.entry = <<>> /\ IsPage(loc.first, a)} :
            IF pc = "gajy_page"
            THEN /\ Becomes(GajyGotJs(Received(Cur, js), js, inv.query))
                 /\ last' = Exchange(STATUS_OK, "consumed")
            ELSE /\ Becomes(GotJs(Received(Tally(Cur, "ok", FALSE), js), js))
                 /\ last' = Exchange(STATUS_OK, "returned")
    /\ UNCHANGED <<inv, budget, citations, hres, aggVars, dec>>

\* one invocation of an operation that pages through search results, on a
\* short request list and without cache files
InitLive ==
    /\ FetchInit(NoFiles, 1, FALSE, MaxSingle)
    /\ citations = <<>>
    /\ hres = [done |-> FALSE, h |-> 0]
    /\ NoAggregation
    /\ dec = NoDecode

NextLive ==
    \/ GetAuthorsFromJournalYear
    \/ GajyAnswer
    \/ GajyAnswerBad
    \/ GetAuthorPublications
    \/ CallApiOk
    \/ CallApiTransient
    \/ CallApiFailed
    \/ EmptyPage

\* The paging operations with a remote that is free to answer with empty
\* pages. The process is not stopped and every request is answered, so a
\* step is taken whenever one is possible.
SpecLive == InitLive /\ [][NextLive]_vars /\ WF_vars(NextLive)

\* one invocation of get_author_publications on a short request list and
\* without cache files, the remote having entries for the queries of the
\* per-author fallback as well; the requests of call_api are counted
InitRetry ==
    /\ disk = NoFiles
    /\ mem = [c \in Categories |-> [set |-> FALSE, data |-> EmptyMap]]
    /\ pc = "idle"
    /\ inv = NoInvocation
    /\ loc = NoLocals
    /\ ret = NoReturn
    /\ hist = [NoHistory EXCEPT !.counting = TRUE]
    /\ last = NoExchange
    /\ budget = [invocations |-> 1, entries |-> MaxEntries,
                 s_entries |-> MaxSingle, long |-> FALSE]
    /\ citations = <<>>
    /\ hres = [done |-> FALSE, h |-> 0]
    /\ NoAggregation
    /\ dec = NoDecode

NextRetry ==
    \/ GetAuthorPublications
    \/ CallApiOk
    \/ CallApiTransient
    \/ CallApiFailed

SpecRetry == InitRetry /\ [][NextRetry]_vars

\* hindex on every citation list of the bounds
InitHindex ==
    /\ FetchInit(NoFiles, 0, FALSE, 0)
    /\ citations \in CitationLists
    /\ hres = [done |-> FALSE, h |-> 0]
    /\ NoAggregation
    /\ dec = NoDecode

SpecHindex == InitHindex /\ [][Hindex]_vars

\* the functions of aggregate.py on every DataFrame of the bounds, the year
\* range being chosen when it is passed
InitAggregate ==
    /\ FetchInit(NoFiles, 0, FALSE, 0)
    /\ citations = <<>>
    /\ hres = [done |-> FALSE, h |-> 0]
    /\ pubtable \in PubTables
    /\ yrange = <<0, 0>>
    /\ agg = NoAggregate
    /\ info = NoInfo
    /\ dec = NoDecode

NextAggregate == PubsByAuthor \/ NcoauthorsAcc

SpecAggregate == InitAggregate /\ [][NextAggregate]_vars

\* aggregate_author_info on every DataFrame of publications with a unique
\* index, on both frames of authors, with a year range or without
InitAuthorInfo ==
    /\ FetchInit(NoFiles, 0, FALSE, 0)
    /\ citations = <<>>
    /\ hres = [done |-> FALSE, h |-> 0]
    /\ pubtable \in InfoTables
    /\ yrange = <<0, 0>>
    /\ agg = NoAggregate
    /\ info = NoInfo
    /\ dec = NoDecode

SpecAuthorInfo == InitAuthorInfo /\ [][AggregateAuthorInfo]_vars

\* decode_cite_info on every raw entry and cite type of the model
InitDecode ==
    /\ FetchInit(NoFiles, 0, FALSE, 0)
    /\ citations = <<>>
    /\ hres = [done |-> FALSE, h |-> 0]
    /\ NoAggregation
    /\ dec \in Decodings

SpecDecode == InitDecode /\ [][DecodeCiteInfo]_vars

---------------------------------------------------------------------------
(* The properties.                                                         *)

\* at least h of the counts are >= h
AtLeast(cits, h) == Cardinality({k \in 1..Len(cits) : cits[k] >= h}) >= h

\* the largest h such that at least h of the counts are >= h
LargestH(cits) ==
    CHOOSE h \in 0..Len(cits) :
        AtLeast(cits, h) /\ \A g \in (h + 1)..Len(cits) : ~AtLeast(cits, g)

\* C1: for every list of non-negative citation counts, the empty list
\* included, utils.hindex returns the largest h such that at least h of the
\* counts are >= h; [] gives 0, [0,0,0] gives 0, [3,0,6,1,5] gives 3 and
\* [5,5,5,5,5] gives 5.
C1_HindexIsLargestH ==
    hres.done =>
        /\ hres.h = LargestH(citations)
        /\ citations = <<>> => hres.h = 0
        /\ citations = <<0, 0, 0>> => hres.h = 0
        /\ citations = <<3, 0, 6, 1, 5>> => hres.h = 3
        /\ citations = <<5, 5, 5, 5, 5>> => hres.h = 5

\* hindex has returned 3 for [3,0,6,1,5]
C1_Witness == hres.done /\ citations = <<3, 0, 6, 1, 5>> /\ hres.h = 3

\* the ids of a sequence of queries, in the order they were sent
RECURSIVE Flatten(_)
Flatten(qs) == IF qs = <<>> THEN <<>> ELSE Head(qs).ids \o Flatten(Tail(qs))

IsPrefix(a, b) == Len(a) <= Len(b) /\ SubSeq(b, 1, Len(a)) = a

\* the invocation is the second one, and the first one returned a result
\* after answers that left out none of the ids asked for
SecondAfterResult ==
    /\ hist.prev_inv.op # "none"
    /\ hist.prev_ret.kind = "result"
    /\ hist.prev_omitted = {}

\* C2: when a first invocation of a fetch operation has completed with a
\* result and the same ids are requested again with force-reload off, the
\* second invocation sends no query to the remote and returns what the first
\* one returned. (First invocations whose answers left out an id asked for
\* are not counted against the claim.)
C2_SecondRunFromCache ==
    SecondAfterResult => hist.queries = <<>> /\ pc = "idle" /\ ret = hist.prev_ret

\* C3: whenever get_publication_info or get_author_info returns a result,
\* the ids served from the cache together with the ids freshly fetched are
\* the requested ids without those of the chunks the remote reported as
\* not found, whatever the remote answered, an error for a later chunk
\* included. (Answers that leave out an id asked for are not counted against
\* the claim.)
C3_ResultCoversRequest ==
    (pc = "idle" /\ inv.op \in {"gpi", "gai"} /\ ret.kind = "result"
        /\ hist.omitted = {}) =>
        hist.hits \cup hist.fetched = Range(inv.ids) \ hist.not_found

\* the queries of the invocation that carry a chunk of the request list (or,
\* for get_authors_from_journal_year, the search query)
ListQueries == SelectSeq(hist.queries, LAMBDA q : q.kind # "single")

\* the chunk size of the running operation
ChunkLimit ==
    CASE inv.op = "gap" -> CHUNK_AUTHOR_PUB
      [] inv.op = "gpi" -> CHUNK_PUB_INFO
      [] inv.op = "gai" -> CHUNK_AUTHOR_INFO
      [] OTHER -> 1

\* the key under which the running operation caches the requested id x
KeyOf(x) == IF inv.op = "gpi" THEN <<x, inv.year_range, inv.cite_type>> ELSE x

\* what the claims say is routed to the remote: under force-reload every
\* requested id, else the requested ids whose key the loaded cache lacks
ToRemote ==
    IF inv.force THEN inv.ids
    ELSE SelectSeq(inv.ids, LAMBDA x : KeyOf(x) \notin DOMAIN hist.cache0)

\* the i-th query goes to one author alone, the k-th of the last chunk query
\* before it, and the queries in between are those for the authors before
SingleInTurn(i) ==
    LET qs == hist.queries
        before == {j \in 1..(i - 1) : qs[j].kind = "chunk"}
    IN /\ before # {}
       /\ LET j == CHOOSE m \in before : \A n \in before : n <= m
              k == i - j
          IN k <= Len(qs[j].ids) /\ qs[i].ids = <<qs[j].ids[k]>>

AllChunksDone ==
    /\ pc = "idle"
    /\ \/ inv.op = "gap" /\ ret.kind = "result"
       \/ inv.op \in {"gpi", "gai"} /\ ret.kind \in {"result", "raise"}
            /\ (loc.idx - 1) * ChunkLimit >= Len(loc.ids_new)
            /\ loc.idx > 1
       \/ inv.op = "gajy" /\ ret.kind = "result"

\* C5: with force-reload off the ids an operation sends to the remote are
\* the requested ids whose key the cache as loaded lacks (all of them once
\* the operation has gone through its chunks), and every requested id whose
\* key is there is served from the cache and its cached record is in the
\* result; with force-reload on every requested id is sent and no cached
\* record is placed in the result.
C5_Routing ==
    inv.op # "none" =>
        /\ IsPrefix(Flatten(ListQueries), ToRemote)
        /\ AllChunksDone => Flatten(ListQueries) = ToRemote
        /\ hist.hits =
                IF inv.force THEN {}
                ELSE {x \in Range(inv.ids) : KeyOf(x) \in DOMAIN hist.cache0}
        /\ (pc = "idle" /\ ret.kind = "result") =>
                /\ inv.op = "gap" =>
                        \A a \in hist.hits : hist.cache0[a] \subseteq ret.val
                /\ inv.op = "gajy" /\ hist.hits # {} =>
                        ret.val = hist.cache0[inv.query]
                /\ inv.op = "gpi" =>
                        \A x \in hist.hits : \E i \in 1..Len(ret.val) :
                            /\ ret.val[i].scopus_id = x
                            /\ ret.val[i].pcc = hist.cache0[KeyOf(x)].pcc
                /\ inv.op = "gai" =>
                        \A x \in hist.hits :
                            ~hist.cache0[x].tombstone =>
                                \E i \in 1..Len(ret.val) :
                                    /\ ret.val[i].author_id = x
                                    /\ ret.val[i].ver = hist.cache0[x].ver
                /\ inv.force /\ inv.op = "gpi" =>
                        \A i \in 1..Len(ret.val) :
                            ret.val[i].scopus_id \in hist.fetched
                /\ inv.force /\ inv.op = "gai" =>
                        \A i \in 1..Len(ret.val) :
                            ret.val[i].author_id \in hist.fetched

\* an operation with force-reload off has returned a result after it served
\* one requested id from the cache and sent another to the remote
C5_Witness ==
    /\ pc = "idle" /\ ret.kind = "result" /\ ~inv.force
    /\ hist.hits # {}
    /\ hist.queries # <<>>
    /\ Range(Flatten(ListQueries)) \cap hist.hits = {}

\* the keys of the loaded publication cache that hold publication p under
\* another year range or another cite type than the request's
OtherKeys(p) ==
    {k \in DOMAIN hist.cache0 : k[1] = p /\ k # KeyOf(p)}

\* C6: a publication cached under one year range and cite type does not
\* satisfy a get_publication_info request for it under another year range
\* or another cite type: with force-reload off the publication is routed to
\* the remote, and once its entry has been received both entries are in the
\* cache, on disk as in memory, when the operation ends (after a last answer
\* with status 200).
C6_BothEntriesCoexist ==
    \A p \in Range(inv.ids) :
        (inv.op = "gpi" /\ ~inv.force /\ OtherKeys(p) # {}
            /\ KeyOf(p) \notin DOMAIN hist.cache0) =>
            /\ p \in Range(loc.ids_new)
            /\ p \notin hist.hits
            /\ (pc = "idle" /\ p \in hist.fetched /\ last.answer = "ok") =>
                    /\ OtherKeys(p) \cup {KeyOf(p)}
                            \subseteq DOMAIN mem["pub_info"].data
                    /\ OtherKeys(p) \cup {KeyOf(p)}
                            \subseteq DOMAIN disk["pub_info"].data

\* the category of cache the running operation works on
CategoryOf(op) ==
    CASE op = "gajy" -> "search_query"
      [] op = "gap" -> "author_pub"
      [] op = "gpi" -> "pub_info"
      [] op = "gai" -> "author_info"

\* C7: no cache entry is ever removed, and with force-reload off every key
\* that is in the cache at the start of an invocation keeps its value, in
\* memory and on disk, to the end of the invocation; the caches of the other
\* categories are not touched.
C7_EntriesKept ==
    \A c \in Categories :
        IF inv.op # "none" /\ c = CategoryOf(inv.op)
        THEN \A k \in DOMAIN hist.cache0 :
                /\ k \in DOMAIN mem[c].data
                /\ disk[c].exists => k \in DOMAIN disk[c].data
                /\ ~inv.force =>
                        /\ mem[c].data[k] = hist.cache0[k]
                        /\ disk[c].exists => disk[c].data[k] = hist.cache0[k]
        ELSE /\ disk[c] \in {NoFiles[c], WarmFiles[c]}
             /\ ~mem[c].set

\* an operation with force-reload off has returned after it added an entry
\* to a cache that had entries
C7_Witness ==
    /\ pc = "idle" /\ ret.kind = "result" /\ ~inv.force
    /\ hist.cache0 # EmptyMap
    /\ \E k \in DOMAIN disk[CategoryOf(inv.op)].data : k \notin DOMAIN hist.cache0

\* C8: one page request makes at most 10 remote requests; when all of them
\* are answered 503 or 504, call_api returns failure after the tenth and
\* get_author_publications aborts and returns failure without processing
\* entries for the page; an answer of 200 ends the retries at once with
\* success.
C8_RetryBoundAndExhaustion ==
    /\ InCallApi => loc.attempt < RETRY_LIMIT
    /\ last.outcome = "retried" => InCallApi /\ loc.attempt >= 1
    /\ last.outcome = "exhausted" => pc = "idle" /\ ret.kind = "abort"
    /\ (last.op = "gap" /\ last.answer = "ok") => last.outcome = "returned"

\* the ids of the chunks get_author_publications has completed when the
\* chunk of its last chunk query is in flight
CompletedIds ==
    LET qs == SelectSeq(hist.queries, LAMBDA q : q.kind = "chunk")
    IN IF qs = <<>> THEN {} ELSE Range(Flatten(SubSeq(qs, 1, Len(qs) - 1)))

\* C9: in get_author_publications a status other than 200, 503 and 504 on
\* any page request is not retried and aborts the fetch, which returns
\* failure; nothing of the chunk in flight is applied to the cache, which in
\* memory and on disk holds the initial entries and those of the chunks
\* completed before.
C9_OtherStatusAborts ==
    (last.op = "gap" /\ last.answer = "other") =>
        /\ last.outcome = "failed"
        /\ pc = "idle" /\ ret.kind = "abort"
        /\ disk["author_pub"].data = mem["author_pub"].data
        /\ DOMAIN mem["author_pub"].data = DOMAIN hist.cache0 \cup CompletedIds

\* C10: every page request of the author-publication search, of the
\* publication detail fetch and of the author detail fetch is retried when
\* it is answered 503 or 504 (up to the bound), and the answer is not
\* consumed as a payload.
C10_TransientIsRetried ==
    (last.op \in {"gap", "gpi", "gai"} /\ last.answer = "transient") =>
        last.outcome \in {"retried", "exhausted"}

\* C11: when a chunk of get_publication_info or get_author_info is answered
\* with a service-error that is not resource-not-found, the operation aborts
\* at once and returns failure, not a result built from the cache hits and
\* the chunks fetched before.
C11_ErrorAborts ==
    (last.op \in {"gpi", "gai"} /\ last.payload = "error") =>
        pc = "idle" /\ ret.kind = "abort"

\* the operation has ended with chunks of its routed list still unsent
StoppedEarly ==
    pc = "idle" /\ Len(ListQueries) * ChunkLimit < Len(loc.ids_new)

\* C12: a resource-not-found answer for a chunk of a detail fetch is no
\* data: it is counted, the operation goes on to the next chunk, and it
\* neither fails nor stops because of it.
C12_NotFoundProceeds ==
    (last.op \in {"gpi", "gai"} /\ last.payload = "not_found") =>
        /\ ~StoppedEarly
        /\ ret.kind # "abort"
        /\ last.op = "gpi" => loc.res_not_found >= 1

\* the queries of the fallback sent so far
SingleQueries == SelectSeq(hist.queries, LAMBDA q : q.kind = "single")

\* the author of the last query of the fallback
LastSingleAuthor == SingleQueries[Len(SingleQueries)].ids[1]

\* the last exchange was the last one of a fallback, which has ended
FallbackEnded == last.at = "gap_single" /\ pc # "gap_single"

\* C13: the per-author fallback of a chunk of get_author_publications is
\* entered if and only if an entry of the chunk's pages is flagged as
\* truncated; it runs after all pages of the chunk and before the chunk is
\* committed, queries the authors of the chunk one by one, and the entry
\* committed for an author is the set his or her individual query returned.
C13_FallbackResolvesChunk ==
    /\ pc = "gap_single" =>
            /\ loc.exists_long
            /\ loc.retrieved >= loc.num_results
            /\ DOMAIN mem["author_pub"].data
                    = DOMAIN hist.cache0 \cup CompletedIds
    /\ \A i \in 1..Len(hist.queries) :
            hist.queries[i].kind = "single" => SingleInTurn(i)
    /\ (inv.op = "gap" /\ pc = "idle" /\ ret.kind \in {"result", "raise"}
            /\ loc.exists_long /\ loc.retrieved >= loc.num_results) =>
            SingleQueries # <<>>
    /\ (FallbackEnded /\ last.outcome = "returned") =>
            mem["author_pub"].data[LastSingleAuthor] = loc.s_ids
    /\ (FallbackEnded /\ last.outcome \in {"failed", "exhausted"}) =>
            LastSingleAuthor
                \notin DOMAIN mem["author_pub"].data \ DOMAIN hist.cache0

\* every entry of the cache in memory is on disk with the same value
OnDisk(c) ==
    \A k \in DOMAIN mem[c].data :
        /\ disk[c].exists
        /\ k \in DOMAIN disk[c].data
        /\ disk[c].data[k] = mem[c].data[k]

\* C14: in the three chunked fetches (get_author_publications,
\* get_publication_info, get_author_info) the records of a completed chunk
\* are merged into the cache and the cache is saved before the next chunk is
\* requested: whenever a request is pending, the file on disk holds the
\* records of every chunk completed so far.
C14_FlushedAfterEachChunk ==
    (pc # "idle" /\ inv.op \in {"gap", "gpi", "gai"}) =>
        OnDisk(CategoryOf(inv.op))

\* a request of one of the paginated search loops is pending
Paging == pc \in {"gap_chunk", "gap_single", "gajy_page"}

\* the offset the pending request carries, and the total the first answer
\* of its query declared
Offset == IF pc = "gap_single" THEN loc.s_start ELSE loc.start
Declared == IF pc = "gap_single" THEN loc.s_num ELSE loc.num_results
ReceivedSoFar == IF pc = "gap_single" THEN hist.s_received ELSE hist.received

\* a request for a further page of the same query is pending
LaterPage == Paging /\ ~loc.first

\* C15: in the paginated search loops the first request of a query has
\* offset 0; every later page request has as offset the number of entries
\* received so far for the query, entries without an eid included; and a
\* further page is requested if and only if that number is below the total
\* the first answer declared (a page whose processing ends normally either
\* leads to the next request or leaves the loop with the total reached).
C15_PaginationOffset ==
    /\ (Paging /\ loc.first) => Offset = 0
    /\ LaterPage => Offset = ReceivedSoFar /\ ReceivedSoFar < Declared
    /\ (last.at = "gap_chunk" /\ last.outcome = "returned"
            /\ ~(pc = "gap_chunk" /\ ~loc.first) /\ ret.kind # "raise") =>
            hist.received >= loc.num_results
    /\ (last.at = "gap_single" /\ last.outcome = "returned"
            /\ ~(pc = "gap_single" /\ ~loc.first)) =>
            hist.s_received >= loc.s_num
    /\ (last.at = "gajy_page" /\ last.outcome = "consumed"
            /\ pc # "gajy_page") =>
            hist.received >= loc.num_results

\* the second page of a chunk is asked for after a first page of one entry,
\* which had no eid
C15_Witness ==
    /\ pc = "gap_chunk" /\ ~loc.first
    /\ loc.start = 1 /\ hist.received = 1
    /\ loc.scopus_ids = {} /\ hist.hits = {}

\* the most queries an invocation of SpecLive sends: one for the chunk and
\* one for each of its authors
MostQueries == 1 + MaxShort

\* C16: whatever the remote answers, the page loop of a query ends after
\* finitely many page requests: a pending page request of the n-th query
\* leads to a state where no request of that query is pending; this
\* includes the remote that answers 200 with zero entries while the count
\* is below the declared total.
C16_PageLoopTerminates ==
    \A n \in 1..MostQueries :
        (Paging /\ Len(hist.queries) = n)
            ~> (~Paging \/ Len(hist.queries) # n)

\* the sequences of ss one after the other
RECURSIVE Concat(_)
Concat(ss) == IF ss = <<>> THEN <<>> ELSE Head(ss) \o Concat(Tail(ss))

\* the chunks of the ids the running operation routed to the remote
RoutedChunks == chunks(loc.ids_new, ChunkLimit)

\* the operation has returned a result and its last answer was no error
ErrorFree ==
    /\ pc = "idle" /\ ret.kind = "result"
    /\ last.payload \notin {"error", "not_found"}

\* C17: the N ids an operation routes to the remote are cut into ceil(N/k)
\* chunks for its chunk size k (none when N = 0), which concatenated in
\* order are the routed list; every chunk has between 1 and k ids and every
\* chunk but the last has k; the chunk queries sent are the chunks in order,
\* one query per chunk, and all of them when the fetch ends without error.
C17_Chunking ==
    inv.op \in {"gap", "gpi", "gai"} =>
        LET cs == RoutedChunks
            N == Len(loc.ids_new)
            k == ChunkLimit
        IN /\ Len(cs) * k >= N /\ (Len(cs) - 1) * k < N
           /\ Concat(cs) = loc.ids_new
           /\ \A i \in 1..Len(cs) :
                /\ 1 <= Len(cs[i]) /\ Len(cs[i]) <= k
                /\ i < Len(cs) => Len(cs[i]) = k
           /\ Len(ListQueries) <= Len(cs)
           /\ \A i \in 1..Len(ListQueries) : ListQueries[i].ids = cs[i]
           /\ ErrorFree => Len(ListQueries) = Len(cs)

\* get_publication_info has returned a result for a list of more ids than a
\* chunk holds, after two chunk queries
C17_Witness ==
    /\ inv.op = "gpi" /\ ErrorFree
    /\ Len(loc.ids_new) > CHUNK_PUB_INFO
    /\ Len(ListQueries) = 2

\* the author ids of the model
AllAuthors == Universe \cup UNION {Range(l) : l \in AuthorLists}

\* a row of pubs has the label p and lists the author a
Lists(p, a) ==
    \E r \in 1..Len(pubtable) :
        pubtable[r].scopus_id = p /\ a \in Range(pubtable[r].authors)

\* C18: in the mapping pubs_by_author returns, publication p is in the set
\* of author a if and only if a occurs in the author list of p; no author
\* has an empty set, and no author outside every author list is a key.
C18_IndexMembership ==
    agg.indexed =>
        /\ \A a \in AllAuthors, p \in PubIds :
                (a \in DOMAIN agg.author_pub /\ p \in agg.author_pub[a])
                    <=> Lists(p, a)
        /\ \A a \in DOMAIN agg.author_pub :
                /\ agg.author_pub[a] # {}
                /\ agg.author_pub[a] \subseteq PubIds
                /\ \E p \in PubIds : Lists(p, a)

\* the index is built from two rows with different labels, one author is
\* on both and another author on one of them
C18_Witness ==
    /\ agg.indexed
    /\ Len(pubtable) = 2 /\ pubtable[1].scopus_id # pubtable[2].scopus_id
    /\ \E a, b \in DOMAIN agg.author_pub :
            Cardinality(agg.author_pub[a]) = 2
                /\ Cardinality(agg.author_pub[b]) = 1

\* the (author, publication) pairs of an index
Pairs(index) == {<<a, p>> \in (DOMAIN index) \X PubIds : p \in index[a]}

\* the sum of the lengths of the author lists of rows
RECURSIVE SumOfLengths(_)
SumOfLengths(rows) ==
    IF rows = <<>> THEN 0
    ELSE Len(Head(rows).authors) + SumOfLengths(Tail(rows))

\* no author list names an author twice, and no two rows with the same
\* label share an author
NoRepeats ==
    /\ \A r \in 1..Len(pubtable) :
            Cardinality(Range(pubtable[r].authors)) = Len(pubtable[r].authors)
    /\ \A r, q \in 1..Len(pubtable) :
            (r # q /\ pubtable[r].scopus_id = pubtable[q].scopus_id) =>
                Range(pubtable[r].authors) \cap Range(pubtable[q].authors) = {}

\* C19 as the spec states it: the number of (author, publication) pairs of
\* the index pubs_by_author builds is the sum of the lengths of the author
\* lists of all publications.
C19_PairCount ==
    agg.indexed =>
        Cardinality(Pairs(agg.author_pub)) = SumOfLengths(pubtable)

\* C19, as the code has it: the pairs of the index are the distinct pairs
\* of an author and a publication that lists the author; their number is at
\* most the sum of the lengths of the author lists and equals it when no
\* list names an author twice and no two rows of one publication share an
\* author.
C19_DistinctPairs ==
    agg.indexed =>
        /\ Pairs(agg.author_pub)
                = {<<a, p>> \in AllAuthors \X PubIds : Lists(p, a)}
        /\ Cardinality(Pairs(agg.author_pub)) <= SumOfLengths(pubtable)
        /\ NoRepeats =>
                Cardinality(Pairs(agg.author_pub)) = SumOfLengths(pubtable)

\* the index of two rows without repeats, three pairs in all
C19_Witness ==
    /\ agg.indexed /\ NoRepeats
    /\ Len(pubtable) = 2
    /\ Cardinality(Pairs(agg.author_pub)) = 3

\* C20: for every author of the universe and every year range, the vector
\* ncoauthors_acc has one entry per year of the range, and each entry is at
\* least the entry of the year before.
C20_AccMonotone ==
    agg.acc_done =>
        \A a \in Universe :
            LET v == agg.ncoauthors_acc[a]
            IN /\ Len(v) = RangeLen(yrange)
               /\ \A i \in 2..Len(v) : v[i] >= v[i - 1]

\* an author's vector over a range of two years or more grows from the
\* first year to the second, after a first year with coauthors
C20_Witness ==
    /\ agg.acc_done /\ RangeLen(yrange) >= 2
    /\ \E a \in Universe :
            /\ 0 < agg.ncoauthors_acc[a][1]
            /\ agg.ncoauthors_acc[a][1] < agg.ncoauthors_acc[a][2]

\* the rows of pubs selected for author a by the index the call computed,
\* as positions
RowsOf(a) ==
    {r \in 1..Len(pubtable) : pubtable[r].scopus_id \in info.author_pubs[a]}

\* the column pubs_by_year has been computed
PubsByYearDone == DOMAIN info.pubs_by_year = Universe

\* C21: for every author and year range [start, end), pubs_by_year has
\* end - start entries, entry i is the number of the author's publications
\* of the year start + i, and the sum of the vector is the number of the
\* author's publications whose year is in the range; a publication outside
\* the range changes no entry.
C21_PubsByYear ==
    PubsByYearDone =>
        \A a \in Universe :
            LET v == info.pubs_by_year[a]
                start == info.year_range[1]
            IN /\ Len(v) = RangeLen(info.year_range)
               /\ \A i \in 1..Len(v) :
                    v[i] = Cardinality({r \in RowsOf(a) :
                                pubtable[r].year = start + i - 1})
               /\ SumSeq(v) = Cardinality({r \in RowsOf(a) :
                                InRange(pubtable[r].year, info.year_range)})

\* an author has a publication before the range and one in its second
\* year, and the vector counts the second only
C21_Witness ==
    /\ PubsByYearDone
    /\ \E a \in Universe :
        /\ \E r \in RowsOf(a) : pubtable[r].year < info.year_range[1]
        /\ Len(info.pubs_by_year[a]) >= 2
        /\ info.pubs_by_year[a][1] = 0
        /\ info.pubs_by_year[a][2] = 1
        /\ Cardinality(RowsOf(a)) = 2

\* the authors other than a in the author lists of a's publications
CoauthorsOf(a) ==
    UNION {Range(pubtable[r].authors) : r \in RowsOf(a)} \ {a}

\* C22: for every author of the author universe, an author without
\* publication in the collection included, ncoauthors is the number of
\* distinct authors other than that author in the author lists of the
\* author's publications, and so is never negative.
C22_Ncoauthors ==
    DOMAIN info.ncoauthors = Universe =>
        \A a \in Universe :
            /\ info.ncoauthors[a] = Cardinality(CoauthorsOf(a))
            /\ info.ncoauthors[a] >= 0

\* the authors in the author lists of a's publications dated y or earlier
AuthorsUntil(a, y) ==
    UNION {Range(pubtable[r].authors) :
            r \in {q \in RowsOf(a) : pubtable[q].year <= y}}

\* C23: for every author and every year y of the range, ncoauthors_acc[y]
\* is the number of distinct coauthors over all of the author's
\* publications dated y or earlier: a publication dated before the start of
\* the range is counted from the first entry on, and a publication dated
\* after y (or at or after the end of the range) is counted in no entry up
\* to y.
C23_AccCountsCoauthors ==
    DOMAIN info.ncoauthors_acc = Universe =>
        \A a \in Universe :
            LET v == info.ncoauthors_acc[a]
            IN /\ Len(v) = RangeLen(info.year_range)
               /\ \A i \in 1..Len(v) :
                    v[i] = Cardinality(
                            AuthorsUntil(a, info.year_range[1] + i - 1) \ {a})

\* C24: for every cite type (all, exclude-self, exclude-books) and every raw
\* entry, decode_cite_info yields a record whose ncites is the sum of its
\* citation vector plus pcc plus lcc, and ncites is not negative when the
\* raw counts are not.
C24_NcitesIsSum ==
    dec.done =>
        /\ ~dec.record.raised
        /\ dec.record.ncites
                = SumSeq(dec.record.cites) + dec.record.pcc + dec.record.lcc
        /\ dec.record.ncites >= 0

\* the field of the raw entry is there
Has(field) ==
    CASE field = "title" -> dec.cite_info.has_title
      [] field = "journal" -> dec.cite_info.has_journal
      [] field = "year" -> dec.cite_info.has_year
      [] field = "authors" -> dec.cite_info.has_author
      [] field = "cites" -> dec.cite_info.has_cc
      [] field = "pcc" -> dec.cite_info.has_pcc
      [] field = "lcc" -> dec.cite_info.has_lcc

\* the value the remote sent for the field
RemoteValue(field) ==
    CASE field = "title" -> dec.cite_info.title
      [] field = "journal" -> dec.cite_info.journal
      [] field = "year" -> dec.cite_info.year
      [] field = "authors" -> dec.cite_info.author
      [] field = "cites" -> dec.cite_info.cc
      [] field = "pcc" -> dec.cite_info.pcc
      [] field = "lcc" -> dec.cite_info.lcc

\* the default of the field
DefaultValue(field) ==
    CASE field \in {"title", "journal"} -> ""
      [] field \in {"year", "pcc", "lcc"} -> 0
      [] field \in {"authors", "cites"} -> <<>>

\* the field of the decoded record
Decoded(field) ==
    CASE field = "title" -> dec.record.title
      [] field = "journal" -> dec.record.journal
      [] field = "year" -> dec.record.year
      [] field = "authors" -> dec.record.authors
      [] field = "cites" -> dec.record.cites
      [] field = "pcc" -> dec.record.pcc
      [] field = "lcc" -> dec.record.lcc

OptionalFields == {"title", "journal", "year", "authors", "cites", "pcc", "lcc"}

\* C25: decoding a raw entry that carries an identifier and lacks any subset
\* of title, journal name, year, author list, citation array, pcc and lcc
\* never fails: the record has the default for each missing field (empty
\* string, 0, empty list, empty vector) and the remote value for each field
\* that is there.
C25_DefaultsForMissing ==
    dec.done =>
        /\ ~dec.record.raised
        /\ dec.record.scopus_id = Id(1)
        /\ \A f \in OptionalFields :
                Decoded(f) = IF Has(f) THEN RemoteValue(f) ELSE DefaultValue(f)

\* aggregate_author_info was called without a year range on a DataFrame
\* that has a first row
CalledWithoutRange ==
    info.outcome # "none" /\ ~info.given /\ pubtable # <<>>

\* C26: when aggregate_author_info is called without a year range, the range
\* used is [s, s + L), s being the cites_start_year of the first row of pubs
\* and L the length of that row's citation vector, and this one range is
\* applied to pubs_by_year and ncoauthors_acc of every author, whatever the
\* lengths of the citation vectors of the other rows: both vectors have
\* length L for every author.
C26_InferredRange ==
    CalledWithoutRange =>
        LET s == pubtable[1].cites_start_year
            L == Len(pubtable[1].cites_by_year)
        IN /\ info.year_range = <<s, s + L>>
           /\ DOMAIN info.pubs_by_year = Universe
           /\ DOMAIN info.ncoauthors_acc = Universe
           /\ \A a \in Universe :
                /\ Len(info.pubs_by_year[a]) = L
                /\ Len(info.ncoauthors_acc[a]) = L

\* the labels of the rows of pubs that list the author a
PublicationsOf(a) ==
    {pubtable[r].scopus_id :
        r \in {q \in 1..Len(pubtable) : a \in Range(pubtable[q].authors)}}

\* C27: aggregate_author_info produces exactly one output row per author id
\* of the author universe and none for another id: an author of the author
\* lists who is not in the universe gets no row, an author of the universe
\* without publication gets a row with npubs = 0, and npubs of every row is
\* the size of the author's set of publication ids in the index, recomputed
\* whatever the authors frame holds.
C27_OneRowPerAuthor ==
    (info.outcome # "none" /\ pubtable # <<>>) =>
        /\ info.outcome = "returned"
        /\ info.index = Universe
        /\ DOMAIN info.npubs = Universe
        /\ \A a \in Universe :
                info.npubs[a] = Cardinality(PublicationsOf(a))

\* the entry of key k in a cache mapping is the one the invocation found
\* when it started (none, if there was none)
AsAtStart(data, k) ==
    k \in DOMAIN data => (k \in DOMAIN hist.cache0 /\ data[k] = hist.cache0[k])

\* C28: in get_author_publications, when the query of the per-author
\* fallback fails for an author (retries exhausted, or a status that is not
\* retried), the chunk in flight is not committed: no cache entry is written
\* for that author from the publications the chunk's pages gave him or her,
\* in memory or on disk.
C28_NoPartialCommit ==
    inv.op = "gap" =>
        \A a \in hist.failed :
            /\ AsAtStart(mem["author_pub"].data, a)
            /\ AsAtStart(disk["author_pub"].data, a)

\* the union of the entries the cache in memory has for the requested
\* authors
CachedUnion ==
    UNION {mem["author_pub"].data[a] :
            a \in Range(inv.ids) \cap DOMAIN mem["author_pub"].data}

\* get_author_publications has returned a result set, force_reload off
GapReturned ==
    inv.op = "gap" /\ pc = "idle" /\ ret.kind = "result" /\ ~inv.force

\* C29: when get_author_publications returns a result set (no abort,
\* force_reload off), the returned set of publication ids is the union of
\* the cache entries of the requested authors as they are at the return,
\* also when an entry of a result page has no author field, lists no author
\* of the chunk, or is flagged as truncated.
C29_ResultIsCachedUnion ==
    GapReturned =>
        /\ Range(inv.ids) \subseteq DOMAIN mem["author_pub"].data
        /\ ret.val = CachedUnion

\* the author ids of the chunks the running (or last) invocation of
\* get_author_publications has completed
Committed ==
    Range(Concat(SubSeq(chunks(loc.ids_new, CHUNK_AUTHOR_PUB), 1, loc.idx - 1)))

\* an invocation of get_author_publications with force_reload off that
\* follows another one
LaterInvocation ==
    inv.op = "gap" /\ hist.prev_inv.op = "gap" /\ ~inv.force

\* C30: in get_author_publications, once a chunk has completed, every author
\* id of the chunk has an entry in the author-publication cache, in memory
\* and on disk (the empty set when no result entry names the author), so a
\* later invocation with force_reload off does not route the author to the
\* remote again: no author with an entry when it starts is in its list of
\* new ids or in a query.
C30_CompletedChunkCached ==
    /\ inv.op = "gap" =>
            /\ Committed \subseteq DOMAIN mem["author_pub"].data
            /\ Committed # {} =>
                    /\ disk["author_pub"].exists
                    /\ Committed \subseteq DOMAIN disk["author_pub"].data
    /\ LaterInvocation =>
            \A a \in DOMAIN hist.prev_disk :
                /\ a \notin Range(loc.ids_new)
                /\ \A i \in 1..Len(hist.queries) :
                        a \notin Range(hist.queries[i].ids)

\* a first invocation completed a chunk in which no result entry named
\* author 1, and the second invocation, with force_reload off, has returned
\* without a query
C30_Witness ==
    /\ LaterInvocation /\ pc = "idle" /\ ret.kind = "result"
    /\ Id(1) \in Range(inv.ids)
    /\ Id(1) \in DOMAIN hist.prev_disk /\ hist.prev_disk[Id(1)] = {}
    /\ hist.prev_ret.kind = "result"
    /\ hist.queries = <<>>

\* an invocation of get_publication_info has ended
GpiEnded == inv.op = "gpi" /\ pc = "idle"

\* the cache key of the running invocation for publication id
KeyNow(id) == cache_key(id, inv.year_range, inv.cite_type)

\* the ids the next invocation of the same request with force_reload off
\* routes to the remote: those without an entry in the cache file
RoutedNext ==
    Range(Routed(inv.ids,
                 {id \in Range(inv.ids) :
                    KeyNow(id) \in DOMAIN disk["pub_info"].data},
                 FALSE))

\* the publication ids of the records the invocation returned
ReturnedIds ==
    IF ret.kind = "result"
    THEN {ret.val[i].scopus_id : i \in 1..Len(ret.val)}
    ELSE {}

\* the ids of the chunks answered with RESOURCE_NOT_FOUND that had no cache
\* entry when the invocation started and that no answer held an entry for
NotFoundOnly ==
    {id \in hist.not_found \ hist.fetched :
        KeyNow(id) \notin DOMAIN hist.cache0}

\* C31: in get_publication_info, a chunk answered with RESOURCE_NOT_FOUND
\* changes no cache entry of an id of the chunk: an id of such a chunk that no
\* answer of the invocation held an entry for has the entry it had when the
\* invocation started, or none, and is not in the result; when it had none,
\* the next invocation of the request with force_reload off routes it to
\* the remote again.
C31_NotFoundIsNotCached ==
    GpiEnded =>
        /\ \A id \in hist.not_found \ hist.fetched :
            /\ id \notin ReturnedIds
            /\ KeyNow(id) \in DOMAIN mem["pub_info"].data
                    <=> KeyNow(id) \in DOMAIN hist.cache0
            /\ KeyNow(id) \in DOMAIN hist.cache0 =>
                    mem["pub_info"].data[KeyNow(id)] = hist.cache0[KeyNow(id)]
        /\ \A id \in NotFoundOnly :
            /\ KeyNow(id) \notin DOMAIN disk["pub_info"].data
            /\ id \in RoutedNext

\* C31 as stated: every id of a chunk answered with RESOURCE_NOT_FOUND is
\* without a cache entry and outside the result when the invocation ends,
\* and the next invocation with force_reload off routes it to the remote
C31_NotFoundAlwaysRoutedAgain ==
    GpiEnded =>
        \A id \in hist.not_found :
            /\ id \notin ReturnedIds
            /\ KeyNow(id) \notin DOMAIN mem["pub_info"].data
            /\ KeyNow(id) \notin DOMAIN disk["pub_info"].data
            /\ id \in RoutedNext

\* an invocation on more than a chunk of ids returned the records of the
\* first chunk after the second chunk was answered with RESOURCE_NOT_FOUND
C31_Witness ==
    /\ GpiEnded /\ ret.kind = "result"
    /\ NotFoundOnly # {}
    /\ hist.fetched # {}
    /\ NotFoundOnly \subseteq RoutedNext

\* the cache categories the operation op does not own
ForeignCategories(op) == Categories \ {CategoryOf(op)}

\* C32: a step of a fetch operation, its start included, changes only the
\* cache category the operation owns (search_query for
\* get_authors_from_journal_year, author_pub for get_author_publications,
\* pub_info for get_publication_info, author_info for get_author_info): the
\* attribute and the file of each of the other three categories are after
\* the step what they were before it.
C32_OnlyOwnCategory ==
    [][inv'.op # "none" =>
            \A c \in ForeignCategories(inv'.op) :
                mem'[c] = mem[c] /\ disk'[c] = disk[c]]_vars

\* an operation that started on the cache files of earlier runs has ended
\* with a new entry in the file of its own category, and the files of the
\* other three categories hold what they held
C32_Witness ==
    /\ inv.op # "none" /\ pc = "idle"
    /\ DOMAIN disk[CategoryOf(inv.op)].data
            # DOMAIN WarmFiles[CategoryOf(inv.op)].data
    /\ \A c \in ForeignCategories(inv.op) :
            /\ disk[c] = WarmFiles[c]
            /\ DOMAIN disk[c].data # {}
            /\ ~mem[c].set

\* what load_*_cache reads for category c: the file's mapping, or the empty
\* mapping when there is no file
FileMapping(c) == IF disk[c].exists THEN disk[c].data ELSE EmptyMap

\* a fetch operation has returned, a result or None
FetchReturned ==
    inv.op # "none" /\ pc = "idle" /\ ret.kind \in {"result", "abort"}

\* C33: whenever a fetch operation returns, with a result or with an abort,
\* the cache file of its category holds the mapping its cache attribute
\* holds (no file standing for the empty mapping); and the cache the
\* operation did its first lookup on is the mapping the file held when the
\* operation started, the empty mapping when there was no file.
C33_DiskEqualsMemory ==
    /\ FetchReturned =>
            mem[CategoryOf(inv.op)].data = FileMapping(CategoryOf(inv.op))
    /\ inv.op # "none" => hist.cache0 = hist.prev_disk

\* an operation that found entries in its cache file has returned a result
\* after it added an entry, and the file holds the attribute's mapping
C33_Witness ==
    /\ FetchReturned /\ ret.kind = "result"
    /\ hist.cache0 # EmptyMap
    /\ DOMAIN mem[CategoryOf(inv.op)].data # DOMAIN hist.cache0
    /\ disk[CategoryOf(inv.op)].exists
    /\ disk[CategoryOf(inv.op)].data = mem[CategoryOf(inv.op)].data

\* an invocation of get_author_publications has ended
GapEnded == inv.op = "gap" /\ pc = "idle"

\* the number of requests is within RETRY_LIMIT for each invocation of
\* call_api, and call_api gives up only after RETRY_LIMIT answers of 503 or
\* 504 to one invocation
TenPerPageRequest ==
    hist.counting =>
        /\ hist.requests <= RETRY_LIMIT * hist.calls
        /\ hist.transients <= RETRY_LIMIT
        /\ last.outcome = "exhausted" => hist.transients = RETRY_LIMIT
        /\ last.outcome = "retried" => hist.transients < RETRY_LIMIT

\* C34: the count of transient answers is per page request: every
\* invocation of call_api has RETRY_LIMIT = 10 attempts of its own, so the
\* requests of a run of get_author_publications with P page requests are at
\* most 10 * P, and a run in which no page request was given up (each got at
\* most 9 answers of 503 or 504 and then a 200) ends with a result, however
\* many pages and chunks it has.
C34_FreshBudgetPerPage ==
    /\ TenPerPageRequest
    /\ (GapEnded /\ hist.nones = 0) => ret.kind = "result"

\* author a has a publication, the year range of the call is not empty and
\* ends after every year of a publication of a
CoveredByRange(a) ==
    /\ RowsOf(a) # {}
    /\ RangeLen(info.year_range) > 0
    /\ \A r \in RowsOf(a) : pubtable[r].year < info.year_range[2]

====
